---- MODULE Spec2Model ----
(***************************************************************************)
(* meteor-cloud-run: load-balancer provisioning (createLoadBalancer),      *)
(* teardown (deleteLoadBalancer) and domain-mapping migration              *)
(* (detectMigrationNeeded, checkMigrationConfig, performMigration,         *)
(* migrateDomainMapping) as driven by the deploy, migrate-domain and       *)
(* remove commands.  One CLI invocation runs at a time; every provider     *)
(* command (executeCommand) is one step whose outcome is chosen by the     *)
(* provider: success, a benign 'not found' / 'already exists' error that   *)
(* follows the provider state, or some other failure.                      *)
(***************************************************************************)
EXTENDS Integers, Sequences, FiniteSets, TLC

\* ---------------------------------------------------------------- bounds
\* number of provider commands that may fail for a reason other than
\* 'not found' / 'already exists' in one behaviour
MaxFaults == 1

\* ------------------------------------------------------ values of fields
T == "true"
F == "false"
U == "undefined"

\* a value that is truthy without being the boolean true, such as "yes"
Yes == "yes"

Truthy(v) == v \in {T, Yes}

\* config.loadBalancerResources / migrationResult.loadBalancerResources = null
Null == [null |-> TRUE]

\* ------------------------------------------------------ provider resources
CoreKinds == {"staticIp", "sslCert", "neg", "backend", "urlMap", "proxy", "rule"}
NatKinds == {"natIp", "router", "nat", "connector"}
FirewallKinds == {"fwInternal", "fwSsh", "fwHttps"}
NetworkKinds == {"defaultNet", "customNet"}

\* the rules default-allow-internal, -ssh and -https of the default network
DefaultFirewallKinds == {"fwDefaultInternal", "fwDefaultSsh", "fwDefaultHttps"}
LegacyKinds == {"domainMapping"}
\* the Cloud Run service and the Artifact Registry repository of the app
AppKinds == {"service", "repository"}
SecretKinds == {"secret"}

AddressKinds == {"staticIp", "natIp"}

\* classes of errors thrown by executeCommand
ErrNotFound == "not found"
ErrExists == "already exists"
ErrOther == "other"

\* ------------------------------------------------------------ loadBalancer
\* generateResourceNames: the name fields of the descriptor
generateResourceNames ==
  {"staticIp", "sslCert", "neg", "backend", "urlMap", "proxy", "rule",
   "natIp", "router", "nat"}

\* stages of createLoadBalancer that are a plain describe-then-create
\* try/catch, in program order, after the inbound static IP
NatChain == <<"natIp", "router", "nat">>
FirewallChain == <<"fwInternal", "fwSsh", "fwHttps">>

\* the core stages with the HTTPS proxy moved before the URL map
CoreChain_ProxyFirst == <<"sslCert", "neg", "backend", "proxy", "urlMap", "rule">>

CoreChain == <<"sslCert", "neg", "backend", "urlMap", "proxy", "rule">>

IndexOf(seq, x) == CHOOSE i \in 1..Len(seq) : seq[i] = x

InSeq(seq, x) == \E i \in 1..Len(seq) : seq[i] = x

\* the order in which createLoadBalancer ensures the resources that
\* deleteLoadBalancer knows about
CreationOrder(useStaticIP) ==
  IF useStaticIP
  THEN <<"staticIp">> \o NatChain \o <<"connector">> \o CoreChain
  ELSE <<"staticIp">> \o CoreChain

Reverse(seq) == [i \in 1..Len(seq) |-> seq[Len(seq) + 1 - i]]

\* deletionSteps with the router pushed before the NAT gateway
DeletionSteps_RouterFirst(desc) ==
  <<"rule", "proxy", "urlMap", "backend", "neg", "sslCert">>
  \o (IF "router" \in desc.names THEN <<"router">> ELSE <<>>)
  \o (IF "nat" \in desc.names THEN <<"nat">> ELSE <<>>)
  \o (IF "connector" \in desc.names THEN <<"connector">> ELSE <<>>)
  \o (IF "natIp" \in desc.names THEN <<"natIp">> ELSE <<>>)
  \o <<"staticIp">>

\* a step list that ends with the network of the router
DeletionSteps_WithNetwork(desc) ==
  <<"rule", "proxy", "urlMap", "backend", "neg", "sslCert">>
  \o (IF "nat" \in desc.names THEN <<"nat">> ELSE <<>>)
  \o (IF "connector" \in desc.names THEN <<"connector">> ELSE <<>>)
  \o (IF "router" \in desc.names THEN <<"router", "customNet">> ELSE <<>>)
  \o (IF "natIp" \in desc.names THEN <<"natIp">> ELSE <<>>)
  \o <<"staticIp">>

\* deletionSteps of deleteLoadBalancer for a descriptor
DeletionSteps(desc) ==
  <<"rule", "proxy", "urlMap", "backend", "neg", "sslCert">>
  \o (IF "nat" \in desc.names THEN <<"nat">> ELSE <<>>)
  \o (IF "connector" \in desc.names THEN <<"connector">> ELSE <<>>)
  \o (IF "router" \in desc.names THEN <<"router">> ELSE <<>>)
  \o (IF "natIp" \in desc.names THEN <<"natIp">> ELSE <<>>)
  \o <<"staticIp">>

\* a classification that takes no deletion error for 'not found'
DeleteIsBenign_Never(err) == FALSE

\* err.message.includes('was not found') in deleteLoadBalancer
DeleteIsBenign(err) == err = ErrNotFound

\* a removal that takes no error for 'not found'
RemovalIsBenign_Never(err) == FALSE

\* error.message.includes('NOT_FOUND') in removeExistingDomainMapping
RemovalIsBenign(err) == err = ErrNotFound

\* createError.message.includes('already exists') for the VPC network
NetworkCreateIsBenign(err) == err = ErrExists

\* error.message.includes('not found') for the default network lookup
NetworkMissing(err) == err = ErrNotFound

\* the result object of createLoadBalancer
Descriptor(names, ipAddress, useStaticIP, natIpAddress) ==
  IF useStaticIP
  THEN [names |-> names, ipAddress |-> ipAddress, natIpAddress |-> natIpAddress]
  ELSE [names |-> names, ipAddress |-> ipAddress]

\* --------------------------------------------------------------- migration
\* a gate that does not look at loadBalancerResources
checkMigrationConfig_IgnoresResources(cfg, needed) ==
  IF ~needed THEN FALSE
  ELSE cfg.enableLoadBalancerMigration = T \/ cfg.useLoadBalancer = T

\* checkMigrationConfig
checkMigrationConfig(cfg, needed) ==
  IF ~needed THEN FALSE
  ELSE LET migrationEnabled == cfg.enableLoadBalancerMigration = T
           useLoadBalancerWithoutResources ==
             cfg.useLoadBalancer = T /\ cfg.loadBalancerResources = Null
       IN migrationEnabled \/ useLoadBalancerWithoutResources

\* flags forced by performMigration before it calls createLoadBalancer
ForceLoadBalancerFlags(cfg) ==
  [cfg EXCEPT !.useLoadBalancer = T,
              !.useManagedSSL = T,
              !.useStaticIP = T,
              !.createStaticOutboundIp =
                 IF Truthy(cfg.createStaticOutboundIp)
                 THEN cfg.createStaticOutboundIp ELSE F]

\* updatedConfig of migrateDomainMapping on success
MergeMigrationResult(cfg, resources) ==
  [cfg EXCEPT !.useLoadBalancer = T,
              !.useManagedSSL = T,
              !.useStaticIP = T,
              !.loadBalancerResources = resources]

\* createLoadBalancer threw instead of returning a descriptor
Threw == [threw |-> TRUE]

\* an entry of the cut-over log; desc is the descriptor a successful
\* createLoadBalancer returned
Event(type) == [type |-> type, desc |-> Null]

\* the entry for the delete command of the legacy domain mapping and its
\* outcome
LegacyDelete(out) == [type |-> "legacy_delete", desc |-> Null, out |-> out]

VARIABLES
  exists,        \* provider: kinds of resources that exist
  addr,          \* provider: address of each static IP, 0 when there is none
  nextAddr,      \* provider: next address to allocate
  connState,     \* provider: state of the VPC connector
  attached,      \* provider: the NEG is a backend of the backend service
  file,          \* .meteor-cloud-run/config.json
  command,       \* the CLI command of this invocation
  pc,            \* position of the invocation
  config,        \* the in-memory config object
  originalConfig,\* deployCommand: copy of config taken before the migration
  callerConfig,  \* config as passed to migrateDomainMapping
  migrationInfo, \* result of detectMigrationNeeded
  returned,      \* value returned by migrateDomainMapping
  migrationResult,
  clb,           \* locals of createLoadBalancer
  stage,         \* resource of the current describe/create stage
  ret,           \* caller of createLoadBalancer / deleteLoadBalancer
  dlb,           \* locals of deleteLoadBalancer
  faultsLeft,    \* provider failures that may still be injected
  pre,           \* provider resources at the start of the invocation
  created,       \* resources created during the invocation
  ensured,       \* resources createLoadBalancer has checked or created, in order
  deleteLog,     \* deletion commands issued by deleteLoadBalancer and their outcomes
  teardowns,     \* descriptors deleteLoadBalancer built a step list for
  events,        \* cut-over events of the invocation
  issued,        \* provider commands of the current createLoadBalancer call
  clbResults,    \* outcomes of the createLoadBalancer calls so far
  shouldMigrate, \* migrateDomainMapping: result of checkMigrationConfig
  self,          \* the invocation that is running
  other,         \* locals of a second, concurrent invocation
  wait,          \* locals of waitForResourceReady
  retry,         \* locals of executeCommandWithRetry
  apps,          \* two applications of one project and their resource names
  removal,       \* remove: options, error count, commands and local files
  image          \* getCompatibleBaseImageFallback: version and results

vars == <<exists, addr, nextAddr, connState, attached, file, command, pc,
          config, originalConfig, callerConfig, migrationInfo, returned,
          migrationResult,
          clb, stage, ret, dlb, faultsLeft, pre, created, ensured, deleteLog,
          teardowns, events, issued, clbResults, shouldMigrate, self, other, wait, retry, apps, removal, image>>

\* the variables of a CLI invocation
invocationVars ==
  <<exists, addr, nextAddr, connState, attached, file, command, pc,
    config, originalConfig, callerConfig, migrationInfo, returned,
    migrationResult,
    clb, stage, ret, dlb, faultsLeft, pre, created, ensured, deleteLog,
    teardowns, events, issued, clbResults, shouldMigrate, self, other,
    removal>>

\* ------------------------------------------------------------------- Init
\* config.json of a project without a recorded load balancer, as written
\* by init or by an earlier version and edited by hand
FreshFiles ==
  [customDomain : BOOLEAN,
   loadBalancerResources : {Null},
   enableLoadBalancerMigration : {U, T},
   useLoadBalancer : {U, T},
   useManagedSSL : {U},
   useStaticIP : {U, F, T},
   createStaticOutboundIp : {U, T}]

\* load-balancer resources left in the project by an earlier invocation
\* that did not record a descriptor
LeftOvers ==
  { [kinds |-> {}, conn |-> "READY"],
    [kinds |-> {"staticIp"}, conn |-> "READY"],
    [kinds |-> {"staticIp", "sslCert", "neg", "backend"}, conn |-> "READY"],
    [kinds |-> {"staticIp", "natIp", "router", "nat", "connector"}, conn |-> "ERROR"],
    [kinds |-> {"staticIp", "natIp", "router", "nat", "connector"}, conn |-> "CREATING"] }

\* a project without a recorded load balancer: the legacy domain mapping
\* may exist, and so may the default network, which is there when a
\* router or a connector was left in it
InitUnprovisioned ==
  /\ file \in FreshFiles
  /\ \E dm \in SUBSET LegacyKinds, net \in SUBSET {"defaultNet"}, left \in LeftOvers :
       /\ file.customDomain \/ (dm = {} /\ left.kinds = {})
       /\ left.kinds \cap {"router", "connector"} # {} => net = {"defaultNet"}
       /\ exists = dm \cup net \cup left.kinds
                   \cup (IF dm # {} THEN AppKinds \cup SecretKinds ELSE {})
       /\ connState = left.conn
       /\ addr = [k \in AddressKinds |-> IF k \in left.kinds THEN IndexOf(<<"staticIp", "natIp">>, k) ELSE 0]
       /\ nextAddr = 3
       /\ attached = FALSE

\* config.json after a deploy that provisioned the load balancer
ProvisionedFile(nat) ==
  [customDomain |-> TRUE,
   loadBalancerResources |->
     Descriptor(IF nat THEN generateResourceNames \cup {"connector"}
                       ELSE generateResourceNames, 1, nat, 2),
   enableLoadBalancerMigration |-> U,
   useLoadBalancer |-> T,
   useManagedSSL |-> T,
   useStaticIP |-> IF nat THEN T ELSE F,
   createStaticOutboundIp |-> U]

\* the resources that deploy left in the project
ProvisionedKinds(nat) ==
  CoreKinds \cup (IF nat THEN NatKinds \cup {"defaultNet"} ELSE {})
  \cup AppKinds \cup SecretKinds

\* a project whose load balancer was provisioned by an earlier deploy and
\* recorded in config.json; gone are the resources deleted since
\* a project provisioned with the outbound IP where the default network
\* was missing: the network of the service and its firewall rules exist
InitProvisionedCustomNet ==
  /\ file = ProvisionedFile(TRUE)
  /\ exists = (ProvisionedKinds(TRUE) \ {"defaultNet"}) \cup {"customNet"}
               \cup FirewallKinds
  /\ connState = "READY"
  /\ addr = [k \in AddressKinds |-> IndexOf(<<"staticIp", "natIp">>, k)]
  /\ nextAddr = 3
  /\ attached = TRUE

InitProvisioned(nat, gone) ==
  /\ file = ProvisionedFile(nat)
  /\ exists = ProvisionedKinds(nat) \ gone
  /\ connState = "READY"
  /\ addr = [k \in AddressKinds |-> IF k \in exists THEN IndexOf(<<"staticIp", "natIp">>, k) ELSE 0]
  /\ nextAddr = 3
  /\ attached = ({"backend", "neg"} \subseteq exists)

NoMigrationResult ==
  [success |-> FALSE, loadBalancerResources |-> Null, error |-> FALSE,
   rollbackNeeded |-> FALSE]

NoClb ==
  [useStaticIP |-> FALSE, names |-> {}, ipAddress |-> 0,
   networkName |-> "defaultNet", backendExists |-> FALSE, state |-> "none"]

\* the value of a `return;` without an expression
Undefined == [undefined |-> TRUE]

\* a returned number
Number(n) == [int |-> n]

NoDlb ==
  [steps |-> <<>>, idx |-> 1, errorCount |-> 0, returned |-> FALSE,
   value |-> Undefined]

\* query is the outcome of the provider query of detectMigrationNeeded,
\* "none" when no query was executed
NoMigrationInfo == [needed |-> FALSE, reason |-> "none", query |-> "none"]

\* there is no second invocation
NoOther ==
  [pc |-> "none", clb |-> NoClb, stage |-> "none", ensured |-> <<>>, issued |-> <<>>]

\* waitForResourceReady has not been called
NoWait ==
  [pc |-> "idle", resourceType |-> "none", maxWaitMs |-> 0, elapsed |-> 0,
   log |-> <<>>, result |-> Undefined]

\* executeCommandWithRetry has not been called
NoRetry ==
  [pc |-> "idle", maxRetries |-> 0, baseDelay |-> 0, exponentialBackoff |-> FALSE,
   jitter |-> FALSE, attempt |-> 0, lastError |-> Undefined, log |-> <<>>,
   result |-> Undefined]

\* no resource names have been generated
NoApps == [pc |-> "idle", serviceNames |-> <<>>, resourceNames |-> <<>>]

\* the files of the project directory that remove may delete
LocalFiles ==
  {"config.json", "Dockerfile", "cloudbuild.yaml", ".dockerignore",
   "meteor-cloud-run-startup.sh"}

\* getCompatibleBaseImageFallback has not been called
NoImage == [pc |-> "idle", meteorVersion |-> <<>>, utils |-> Undefined, test |-> Undefined]

\* the remove command has not been started
NoRemoval ==
  [options |-> "none", errorCount |-> 0, log |-> <<>>, files |-> LocalFiles]

\* no command has been started
InitRun ==
  /\ command = "none"
  /\ pc = "idle"
  /\ config = file
  /\ originalConfig = file
  /\ callerConfig = file
  /\ migrationInfo = NoMigrationInfo
  /\ returned = file
  /\ migrationResult = NoMigrationResult
  /\ clb = NoClb
  /\ stage = "none"
  /\ ret = "none"
  /\ dlb = NoDlb
  /\ pre = exists
  /\ created = {}
  /\ ensured = <<>>
  /\ deleteLog = <<>>
  /\ teardowns = <<>>
  /\ events = <<>>
  /\ issued = <<>>
  /\ clbResults = <<>>
  /\ shouldMigrate = FALSE
  /\ self = 1
  /\ wait = NoWait
  /\ retry = NoRetry
  /\ removal = NoRemoval

\* one invocation at a time
InitInvocation ==
  /\ InitRun
  /\ other = NoOther
  /\ apps = NoApps
  /\ image = NoImage

Init ==
  /\ \/ InitUnprovisioned
     \/ \E nat \in BOOLEAN : InitProvisioned(nat, {})
     \/ InitProvisionedCustomNet
  /\ faultsLeft = MaxFaults
  /\ InitInvocation

\* resources of a provisioned project that an earlier, partial removal
\* has already deleted
AlreadyDeleted ==
  { {}, {"rule", "nat"}, {"staticIp", "neg", "connector"}, CoreKinds \cup NatKinds }

\* the remove command on a provisioned project, where any deletion may fail
InitTeardown ==
  /\ \E nat \in BOOLEAN, gone \in AlreadyDeleted : InitProvisioned(nat, gone)
  /\ faultsLeft = Len(DeletionSteps(file.loadBalancerResources))
  /\ InitInvocation

\* ------------------------------------------------------ provider commands
Fault == IF faultsLeft > 0 THEN {ErrOther} ELSE {}

\* outcomes of a describe command for resource r
DescribeOutcomes(r) == (IF r \in exists THEN {"ok"} ELSE {ErrNotFound}) \cup Fault

\* outcomes of a create command for resource r; the router and the VPC
\* connector are created in the network the run settled on, and the
\* provider refuses them when that network does not exist
CreateOutcomes(r) ==
  (IF r \in {"router", "connector"} /\ clb.networkName \notin exists
   THEN {ErrNotFound}
   ELSE IF r \in exists THEN {ErrExists} ELSE {"ok"}) \cup Fault

\* outcomes of a delete command for resource r
DeleteOutcomes(r) == (IF r \in exists THEN {"ok"} ELSE {ErrNotFound}) \cup Fault

Charge(out) == faultsLeft' = IF out = ErrOther THEN faultsLeft - 1 ELSE faultsLeft

ProviderCreate(r) ==
  /\ exists' = exists \cup {r}
  /\ addr' = IF r \in AddressKinds THEN [addr EXCEPT ![r] = nextAddr] ELSE addr
  /\ nextAddr' = IF r \in AddressKinds THEN nextAddr + 1 ELSE nextAddr
  /\ connState' = IF r = "connector" THEN "READY" ELSE connState
  /\ attached' = attached
  /\ created' = created \cup {r}

ProviderDelete(r) ==
  /\ exists' = exists \ {r}
  /\ addr' = IF r \in AddressKinds THEN [addr EXCEPT ![r] = 0] ELSE addr
  /\ nextAddr' = nextAddr
  /\ connState' = connState
  /\ attached' = (attached /\ r \notin {"backend", "neg"})
  /\ created' = created

ProviderSame == UNCHANGED <<exists, addr, nextAddr, connState, attached, created>>

\* -------------------------------------------------------- deleteLoadBalancer
\* deleteLoadBalancer(config) up to its first provider command: the step
\* list is built from the descriptor
\* where the caller of deleteLoadBalancer goes on
AfterDLB(caller) ==
  IF caller = "rollback" THEN "mdm_result"
  ELSE IF caller = "remove" THEN "rm_service"
  ELSE "done"

EnterDLB(resources, caller) ==
  /\ deleteLog' = <<>>
  /\ ret' = caller
  /\ IF resources = Null
     THEN /\ dlb' = [NoDlb EXCEPT !.returned = TRUE, !.value = Undefined]
          /\ teardowns' = teardowns
          /\ pc' = AfterDLB(caller)
     ELSE /\ dlb' = [NoDlb EXCEPT !.steps = DeletionSteps(resources)]
          /\ teardowns' = Append(teardowns, resources)
          /\ pc' = "dlb_step"

\* ------------------------------------------------------------ performMigration
\* a catch block that records the error and returns without rolling back
PMCatch_NoRollback(mr, ev) ==
  /\ migrationResult' = [mr EXCEPT !.error = TRUE]
  /\ pc' = "mdm_result"
  /\ events' = ev
  /\ UNCHANGED <<dlb, deleteLog, teardowns, ret>>

\* the catch block of performMigration: record the error, roll back when
\* resources were recorded, return the result
PMCatch_NoError(mr, ev) ==
  /\ migrationResult' = mr
  /\ IF mr.rollbackNeeded /\ mr.loadBalancerResources # Null
     THEN /\ EnterDLB(mr.loadBalancerResources, "rollback")
          /\ events' = Append(ev, Event("rollback"))
     ELSE /\ pc' = "mdm_result"
          /\ events' = ev
          /\ UNCHANGED <<dlb, deleteLog, teardowns, ret>>

PMCatch(mr, ev) ==
  /\ migrationResult' = [mr EXCEPT !.error = TRUE]
  /\ IF mr.rollbackNeeded /\ mr.loadBalancerResources # Null
     THEN /\ EnterDLB(mr.loadBalancerResources, "rollback")
          /\ events' = Append(ev, Event("rollback"))
     ELSE /\ pc' = "mdm_result"
          /\ events' = ev
          /\ UNCHANGED <<dlb, deleteLog, teardowns, ret>>

\* -------------------------------------------------------- createLoadBalancer
\* createLoadBalancer(config) up to its first provider command
EnterCLB(cfg, caller) ==
  /\ clb' = [useStaticIP |-> Truthy(cfg.useStaticIP),
             names |-> generateResourceNames,
             ipAddress |-> 0,
             networkName |-> "defaultNet",
             backendExists |-> FALSE,
             state |-> "none"]
  /\ ensured' = <<>>
  /\ issued' = <<>>
  /\ stage' = "staticIp"
  /\ ret' = caller
  /\ pc' = "clb_check"

\* position after the stage of resource r is complete
NextPos(r, c) ==
  CASE r = "staticIp" ->
         IF c.useStaticIP THEN [pc |-> "clb_net_default", stage |-> "defaultNet"]
         ELSE [pc |-> "clb_check", stage |-> CoreChain[1]]
    [] r \in NetworkKinds ->
         IF c.networkName = "customNet"
         THEN [pc |-> "clb_check", stage |-> FirewallChain[1]]
         ELSE [pc |-> "clb_check", stage |-> NatChain[1]]
    [] r \in FirewallKinds ->
         IF IndexOf(FirewallChain, r) < Len(FirewallChain)
         THEN [pc |-> "clb_check", stage |-> FirewallChain[IndexOf(FirewallChain, r) + 1]]
         ELSE [pc |-> "clb_check", stage |-> NatChain[1]]
    [] InSeq(NatChain, r) ->
         IF IndexOf(NatChain, r) < Len(NatChain)
         THEN [pc |-> "clb_check", stage |-> NatChain[IndexOf(NatChain, r) + 1]]
         ELSE [pc |-> "clb_vpcapi", stage |-> "connector"]
    [] r = "connector" -> [pc |-> "clb_check", stage |-> CoreChain[1]]
    [] OTHER ->
         IF IndexOf(CoreChain, r) < Len(CoreChain)
         THEN [pc |-> "clb_check", stage |-> CoreChain[IndexOf(CoreChain, r) + 1]]
         ELSE [pc |-> "clb_final", stage |-> "natIp"]

\* executeCommand(op on resource r) in createLoadBalancer ended with out;
\* the log of a call is kept in full when one invocation runs, and cut to
\* its last command when two run concurrently
Issue(op, r, out) ==
  issued' = IF other.pc = "none"
            THEN Append(issued, [op |-> op, res |-> r, out |-> out])
            ELSE <<[op |-> op, res |-> r, out |-> out]>>

\* the call of createLoadBalancer by the running invocation has ended
CLBOutcome(result) ==
  clbResults' = Append(clbResults, [caller |-> ret, by |-> self, result |-> result])

CLBGoto(pos) ==
  /\ pc' = pos.pc
  /\ stage' = pos.stage
  /\ UNCHANGED <<ret, config, file, migrationResult, dlb, deleteLog, teardowns, events,
                 clbResults>>

\* createLoadBalancer returns result to its caller: performMigration
\* records it and marks the rollback as needed; deployCommand stores it in
\* the config and saves config.json
CLBReturn(result) ==
  /\ stage' = stage
  /\ CLBOutcome(result)
  /\ IF ret = "migration"
     THEN /\ migrationResult' = [migrationResult EXCEPT
                                   !.loadBalancerResources = result,
                                   !.rollbackNeeded = TRUE]
          /\ events' = Append(events, [type |-> "provisioned", desc |-> result])
          /\ pc' = "pm_remove"
          /\ UNCHANGED <<ret, config, file, dlb, deleteLog, teardowns>>
     ELSE IF ret = "deploy"
     THEN /\ config' = [config EXCEPT !.loadBalancerResources = result]
          /\ file' = config'
          /\ pc' = "done"
          /\ UNCHANGED <<ret, migrationResult, dlb, deleteLog, teardowns, events>>
     ELSE /\ pc' = "done"
          /\ UNCHANGED <<ret, config, file, migrationResult, dlb, deleteLog,
                         teardowns, events>>

\* a provisioning failure that performMigration swallows, going on to the
\* removal of the legacy domain mapping
CLBThrow_Swallowed ==
  /\ stage' = stage
  /\ CLBOutcome(Threw)
  /\ IF ret = "migration"
     THEN /\ pc' = "pm_remove"
          /\ events' = Append(events, Event("provision_failed"))
          /\ UNCHANGED <<ret, config, file, migrationResult, dlb, deleteLog, teardowns>>
     ELSE /\ pc' = "done"
          /\ UNCHANGED <<ret, config, file, migrationResult, dlb, deleteLog,
                         teardowns, events>>

\* createLoadBalancer rethrows: performMigration catches, deployCommand
\* logs and carries on
CLBThrow ==
  /\ stage' = stage
  /\ CLBOutcome(Threw)
  /\ IF ret = "migration"
     THEN /\ PMCatch(migrationResult, Append(events, Event("provision_failed")))
          /\ UNCHANGED <<config, file>>
     ELSE /\ pc' = "done"
          /\ UNCHANGED <<ret, config, file, migrationResult, dlb, deleteLog,
                         teardowns, events>>

CLBFrame ==
  UNCHANGED <<command, originalConfig, callerConfig, migrationInfo, returned, pre,
              shouldMigrate, self, other, wait, retry, apps, removal, image>>

\* a describe-then-create stage, the describe: reuse on success, create on
\* any error
CLBDescribe ==
  /\ pc = "clb_check"
  /\ \E out \in DescribeOutcomes(stage) :
       /\ Charge(out)
       /\ ProviderSame
       /\ ensured' = Append(ensured, stage)
       /\ Issue("describe", stage, out)
       /\ IF out = "ok"
          THEN /\ clb' = [clb EXCEPT
                            !.ipAddress = IF stage = "staticIp" THEN addr[stage] ELSE @,
                            !.backendExists = IF stage = "backend" THEN TRUE ELSE @]
               /\ CLBGoto(NextPos(stage, clb))
          ELSE /\ clb' = clb
               /\ CLBGoto([pc |-> "clb_create", stage |-> stage])
  /\ CLBFrame

AfterCreate_NoAttach(r, c) ==
  IF r \in AddressKinds
  THEN [pc |-> "clb_describe_created", stage |-> r]
  ELSE NextPos(r, c)

\* where a call goes on when resource r was created: the address of a new
\* static IP is read back, the NEG is added to a new backend service
AfterCreate(r, c) ==
  IF r \in AddressKinds
  THEN [pc |-> "clb_describe_created", stage |-> r]
  ELSE IF r = "backend"
  THEN [pc |-> "clb_attach", stage |-> r]
  ELSE NextPos(r, c)

\* a describe-then-create stage, the create: any error aborts
CLBCreate ==
  /\ pc = "clb_create"
  /\ \E out \in CreateOutcomes(stage) :
       /\ Charge(out)
       /\ Issue("create", stage, out)
       /\ UNCHANGED <<clb, ensured>>
       /\ IF out = "ok"
          THEN /\ ProviderCreate(stage)
               /\ CLBGoto(AfterCreate(stage, clb))
          ELSE /\ ProviderSame
               /\ CLBThrow
  /\ CLBFrame

\* the address of a static IP that was just created is read back
CLBDescribeCreated ==
  /\ pc = "clb_describe_created"
  /\ \E out \in DescribeOutcomes(stage) :
       /\ Charge(out)
       /\ ProviderSame
       /\ ensured' = ensured
       /\ Issue("describe", stage, out)
       /\ IF out = "ok"
          THEN /\ clb' = [clb EXCEPT !.ipAddress = IF stage = "staticIp" THEN addr[stage] ELSE @]
               /\ CLBGoto(NextPos(stage, clb))
          ELSE /\ clb' = clb
               /\ CLBThrow
  /\ CLBFrame

\* add-backend, only reached when the backend service was just created
CLBAttach ==
  /\ pc = "clb_attach"
  /\ ~clb.backendExists
  /\ \E out \in {"ok"} \cup Fault :
       /\ Charge(out)
       /\ Issue("attach", stage, out)
       /\ UNCHANGED <<clb, ensured, exists, addr, nextAddr, connState, created>>
       /\ IF out = "ok"
          THEN /\ attached' = TRUE
               /\ CLBGoto(NextPos(stage, clb))
          ELSE /\ attached' = attached
               /\ CLBThrow
  /\ CLBFrame

\* the default network is looked up: missing -> per-service network,
\* any other error -> carry on with the default network
CLBNetworkDefault ==
  /\ pc = "clb_net_default"
  /\ \E out \in DescribeOutcomes("defaultNet") :
       /\ Charge(out)
       /\ ProviderSame
       /\ ensured' = Append(ensured, "defaultNet")
       /\ Issue("describe", "defaultNet", out)
       /\ IF NetworkMissing(out)
          THEN /\ clb' = [clb EXCEPT !.networkName = "customNet"]
               /\ CLBGoto([pc |-> "clb_net_custom", stage |-> "customNet"])
          ELSE /\ clb' = clb
               /\ CLBGoto(NextPos("defaultNet", clb))
  /\ CLBFrame

\* the per-service network is looked up: found -> firewall rules,
\* any error -> create it
CLBNetworkCustom ==
  /\ pc = "clb_net_custom"
  /\ \E out \in DescribeOutcomes("customNet") :
       /\ Charge(out)
       /\ ProviderSame
       /\ ensured' = Append(ensured, "customNet")
       /\ Issue("describe", "customNet", out)
       /\ clb' = clb
       /\ IF out = "ok"
          THEN CLBGoto(NextPos("customNet", clb))
          ELSE CLBGoto([pc |-> "clb_net_create", stage |-> "customNet"])
  /\ CLBFrame

\* the per-service network is created: 'already exists' is tolerated
CLBNetworkCreate ==
  /\ pc = "clb_net_create"
  /\ \E out \in CreateOutcomes("customNet") :
       /\ Charge(out)
       /\ Issue("create", "customNet", out)
       /\ UNCHANGED <<clb, ensured>>
       /\ IF out = "ok"
          THEN /\ ProviderCreate("customNet")
               /\ CLBGoto(NextPos("customNet", clb))
          ELSE /\ ProviderSame
               /\ IF NetworkCreateIsBenign(out)
                  THEN CLBGoto(NextPos("customNet", clb))
                  ELSE CLBThrow
  /\ CLBFrame

\* gcloud services enable vpcaccess.googleapis.com: errors are ignored
CLBEnableVpcAccess ==
  /\ pc = "clb_vpcapi"
  /\ \E out \in {"ok"} \cup Fault :
       /\ Charge(out)
       /\ ProviderSame
       /\ Issue("enable", "vpcAccessApi", out)
       /\ UNCHANGED <<clb, ensured>>
       /\ CLBGoto([pc |-> "clb_conn_check", stage |-> "connector"])
  /\ CLBFrame

ConnectorDone_NotRecorded(c) == c

\* the connector name is stored in resourceNames once the connector stage
\* is over
ConnectorDone(c) == [c EXCEPT !.names = @ \cup {"connector"}]

\* the VPC connector is looked up: READY -> reuse, ERROR -> delete and
\* recreate, other state -> carry on, any error -> create
CLBConnectorCheck ==
  /\ pc = "clb_conn_check"
  /\ \E out \in DescribeOutcomes("connector") :
       /\ Charge(out)
       /\ ProviderSame
       /\ ensured' = Append(ensured, "connector")
       /\ Issue("describe", "connector", out)
       /\ IF out = "ok"
          THEN IF connState = "ERROR"
               THEN /\ clb' = [clb EXCEPT !.state = connState]
                    /\ CLBGoto([pc |-> "clb_conn_delete", stage |-> "connector"])
               ELSE /\ clb' = ConnectorDone([clb EXCEPT !.state = connState])
                    /\ CLBGoto(NextPos("connector", clb))
          ELSE /\ clb' = clb
               /\ CLBGoto([pc |-> "clb_conn_create", stage |-> "connector"])
  /\ CLBFrame

\* the connector in ERROR state is deleted; whether the delete succeeds or
\* throws, the catch block creates the connector next
CLBConnectorDelete ==
  /\ pc = "clb_conn_delete"
  /\ \E out \in DeleteOutcomes("connector") :
       /\ Charge(out)
       /\ IF out = "ok" THEN ProviderDelete("connector") ELSE ProviderSame
       /\ Issue("delete", "connector", out)
       /\ UNCHANGED <<clb, ensured>>
       /\ CLBGoto([pc |-> "clb_conn_create", stage |-> "connector"])
  /\ CLBFrame

\* the connector is created; a failure is logged and ignored
CLBConnectorCreate ==
  /\ pc = "clb_conn_create"
  /\ \E out \in CreateOutcomes("connector") :
       /\ Charge(out)
       /\ IF out = "ok" THEN ProviderCreate("connector") ELSE ProviderSame
       /\ Issue("create", "connector", out)
       /\ ensured' = ensured
       /\ clb' = ConnectorDone(clb)
       /\ CLBGoto(NextPos("connector", clb))
  /\ CLBFrame

\* the result is assembled; with useStaticIP the NAT address is read again
CLBFinish ==
  /\ pc = "clb_final"
  /\ UNCHANGED <<clb, ensured>>
  /\ ProviderSame
  /\ IF clb.useStaticIP
     THEN \E out \in DescribeOutcomes("natIp") :
            /\ Charge(out)
            /\ Issue("describe", "natIp", out)
            /\ IF out = "ok"
               THEN CLBReturn(Descriptor(clb.names, clb.ipAddress, TRUE, addr["natIp"]))
               ELSE CLBThrow
     ELSE /\ faultsLeft' = faultsLeft
          /\ issued' = issued
          /\ CLBReturn(Descriptor(clb.names, clb.ipAddress, FALSE, 0))
  /\ CLBFrame

\* -------------------------------------------------------- deleteLoadBalancer
DLBFrame ==
  UNCHANGED <<file, command, config, originalConfig, callerConfig, migrationInfo,
              returned, migrationResult, clb, stage, ret, pre, ensured,
              teardowns, issued, clbResults, shouldMigrate, self, other,
              wait, retry, apps, image>>

\* one iteration of the loop over deletionSteps
DLBStep ==
  /\ pc = "dlb_step"
  /\ dlb.idx <= Len(dlb.steps)
  /\ LET r == dlb.steps[dlb.idx] IN
     \E out \in DeleteOutcomes(r) :
       /\ Charge(out)
       /\ deleteLog' = Append(deleteLog, [res |-> r, out |-> out])
       /\ IF out = "ok" THEN ProviderDelete(r) ELSE ProviderSame
       /\ dlb' = [dlb EXCEPT
                    !.idx = @ + 1,
                    !.errorCount = IF out = "ok" \/ DeleteIsBenign(out) THEN @ ELSE @ + 1]
  /\ pc' = pc
  /\ removal' = removal
  /\ events' = events
  /\ DLBFrame

\* what performMigration prints once the teardown of its rollback has
\* ended: value is what deleteLoadBalancer returned, which is awaited and
\* not looked at; "rollback_failed" is printed when the teardown throws
RollbackReport(value) == "rollback_completed"

\* deleteLoadBalancer returns errorCount: performMigration reports the
\* rollback and returns its result, the remove command adds the count to
\* its own and goes on
DLBReturn ==
  /\ pc = "dlb_step"
  /\ dlb.idx > Len(dlb.steps)
  /\ dlb' = [dlb EXCEPT !.returned = TRUE, !.value = Number(dlb.errorCount)]
  /\ pc' = AfterDLB(ret)
  /\ events' = IF ret = "rollback"
               THEN Append(events, Event(RollbackReport(dlb'.value)))
               ELSE events
  /\ removal' = IF ret = "remove"
                THEN [removal EXCEPT !.errorCount = @ + dlb.errorCount]
                ELSE removal
  /\ ProviderSame
  /\ UNCHANGED <<faultsLeft, deleteLog>>
  /\ DLBFrame

\* ------------------------------------------------------ migrateDomainMapping
\* a detection that takes a failed query for a domain mapping
DetectOutcomes_FailOpen(cfg) ==
  IF ~cfg.customDomain
  THEN {[needed |-> FALSE, reason |-> "no_custom_domain", out |-> "none"]}
  ELSE IF cfg.loadBalancerResources # Null
  THEN {[needed |-> FALSE, reason |-> "already_using_load_balancer", out |-> "none"]}
  ELSE {[needed |-> (out # ErrNotFound),
         reason |-> IF out # ErrNotFound THEN "has_domain_mapping"
                    ELSE "no_existing_domain_mapping",
         out |-> out] : out \in DescribeOutcomes("domainMapping")}

\* a detection that queries the provider before it looks at the config
DetectOutcomes_QueryFirst(cfg) ==
  IF ~cfg.customDomain \/ cfg.loadBalancerResources # Null
  THEN {[needed |-> FALSE,
         reason |-> IF out \in Fault THEN "check_failed"
                    ELSE IF ~cfg.customDomain THEN "no_custom_domain"
                    ELSE "already_using_load_balancer",
         out |-> out] : out \in DescribeOutcomes("domainMapping")}
  ELSE {[needed |-> (out = "ok"),
         reason |-> IF out = "ok" THEN "has_domain_mapping"
                    ELSE "no_existing_domain_mapping",
         out |-> out] : out \in DescribeOutcomes("domainMapping")}
       \cup {[needed |-> FALSE, reason |-> "check_failed", out |-> out] : out \in Fault}

\* detectMigrationNeeded: decided from the config alone, or by a provider
\* query whose failure means 'not needed'
DetectOutcomes(cfg) ==
  IF ~cfg.customDomain
  THEN {[needed |-> FALSE, reason |-> "no_custom_domain", out |-> "none"]}
  ELSE IF cfg.loadBalancerResources # Null
  THEN {[needed |-> FALSE, reason |-> "already_using_load_balancer", out |-> "none"]}
  ELSE {[needed |-> (out = "ok"),
         reason |-> IF out = "ok" THEN "has_domain_mapping"
                    ELSE "no_existing_domain_mapping",
         out |-> out] : out \in DescribeOutcomes("domainMapping")}
       \cup {[needed |-> FALSE, reason |-> "check_failed", out |-> out] : out \in Fault}

MigrationFrame ==
  UNCHANGED <<command, originalConfig, callerConfig, pre, clbResults, self, other, wait, retry, apps, removal, image>>

\* migrateDomainMapping, steps 1 and 2: detect, then checkMigrationConfig;
\* the config is returned as it is when the migration is not to be done
MDMDetect ==
  /\ pc = "mdm_detect"
  /\ \E d \in DetectOutcomes(config) :
       /\ Charge(d.out)
       /\ migrationInfo' = [needed |-> d.needed, reason |-> d.reason, query |-> d.out]
       /\ IF ~d.needed
          THEN /\ returned' = config
               /\ shouldMigrate' = shouldMigrate
               /\ events' = Append(events, Event("not_needed"))
               /\ pc' = "mdm_return"
          ELSE /\ shouldMigrate' = checkMigrationConfig(config, d.needed)
               /\ IF ~shouldMigrate'
                  THEN /\ returned' = config
                       /\ events' = Append(events, Event("skipped"))
                       /\ pc' = "mdm_return"
                  ELSE /\ returned' = returned
                       /\ events' = Append(events, Event("migrating"))
                       /\ pc' = "pm_info"
  /\ ProviderSame
  /\ UNCHANGED <<file, config, migrationResult, clb, stage, ret, dlb, ensured,
                 issued, deleteLog, teardowns>>
  /\ MigrationFrame

\* performMigration, steps 1 and 2: the domain-mapping info is fetched
\* (a failure is only logged), the load-balancer flags are forced on the
\* config object and createLoadBalancer is called
PMStart ==
  /\ pc = "pm_info"
  /\ \E out \in DescribeOutcomes("domainMapping") : Charge(out)
  /\ migrationResult' = NoMigrationResult
  /\ config' = ForceLoadBalancerFlags(config)
  /\ EnterCLB(config', "migration")
  /\ ProviderSame
  /\ UNCHANGED <<file, migrationInfo, returned, dlb, deleteLog, teardowns, events,
                 shouldMigrate>>
  /\ MigrationFrame

\* performMigration, step 3: removeExistingDomainMapping; success and
\* 'not found' complete the migration, any other error throws into the
\* catch block
PMRemove ==
  /\ pc = "pm_remove"
  /\ \E out \in DeleteOutcomes("domainMapping") :
       /\ Charge(out)
       /\ IF out = "ok" THEN ProviderDelete("domainMapping") ELSE ProviderSame
       /\ IF out = "ok" \/ RemovalIsBenign(out)
          THEN /\ migrationResult' = [migrationResult EXCEPT !.success = TRUE]
               /\ events' = Append(events, LegacyDelete(out))
               /\ pc' = "mdm_result"
               /\ UNCHANGED <<dlb, deleteLog, teardowns, ret>>
          ELSE PMCatch(migrationResult,
                       events \o <<LegacyDelete(out), Event("legacy_delete_failed")>>)
  /\ UNCHANGED <<file, config, migrationInfo, returned, clb, stage, ensured,
                 issued, shouldMigrate>>
  /\ MigrationFrame

\* a step 3 that merges the resources of performMigration whether or not
\* the migration succeeded
MDMResult_MergeAlways ==
  /\ pc = "mdm_result"
  /\ returned' = MergeMigrationResult(config, migrationResult.loadBalancerResources)
  /\ pc' = "mdm_return"
  /\ ProviderSame
  /\ UNCHANGED <<file, config, migrationInfo, migrationResult, clb, stage, ret,
                 dlb, faultsLeft, ensured, issued, deleteLog, teardowns, events,
                 shouldMigrate>>
  /\ MigrationFrame

\* migrateDomainMapping, step 3: the result of performMigration is merged
\* into a copy of the config on success; otherwise the config object is
\* returned
MDMResult ==
  /\ pc = "mdm_result"
  /\ returned' = IF migrationResult.success
                 THEN MergeMigrationResult(config, migrationResult.loadBalancerResources)
                 ELSE config
  /\ pc' = "mdm_return"
  /\ ProviderSame
  /\ UNCHANGED <<file, config, migrationInfo, migrationResult, clb, stage, ret,
                 dlb, faultsLeft, ensured, issued, deleteLog, teardowns, events,
                 shouldMigrate>>
  /\ MigrationFrame

\* ------------------------------------------------------------------ commands
CommandFrame ==
  UNCHANGED <<migrationInfo, returned, migrationResult, dlb, faultsLeft, pre,
              deleteLog, teardowns, events, clbResults, shouldMigrate, self, other, wait, retry, apps, removal, image>>

\* migrate-domain: the config is read, the migration flag is forced and
\* migrateDomainMapping is called
MigrateDomainStart ==
  /\ pc = "idle"
  /\ command' = "migrate-domain"
  /\ config' = [file EXCEPT !.enableLoadBalancerMigration = T]
  /\ callerConfig' = config'
  /\ pc' = "mdm_detect"
  /\ ProviderSame
  /\ UNCHANGED <<file, originalConfig, clb, stage, ret, ensured, issued>>
  /\ CommandFrame

\* migrate-domain: the returned config is saved when it has a descriptor
MigrateDomainSave ==
  /\ pc = "mdm_return"
  /\ command = "migrate-domain"
  /\ file' = IF returned.loadBalancerResources # Null THEN returned ELSE file
  /\ pc' = "done"
  /\ ProviderSame
  /\ UNCHANGED <<command, config, originalConfig, callerConfig, clb, stage, ret,
                 ensured, issued>>
  /\ CommandFrame

\* deploy: the config is read; unless --skip-migration is given a copy is
\* kept and migrateDomainMapping is called
DeployStart ==
  /\ pc = "idle"
  /\ command' = "deploy"
  /\ config' = file
  /\ originalConfig' = file
  /\ callerConfig' = file
  /\ \E skipMigration \in BOOLEAN :
       pc' = IF skipMigration THEN "deploy_build" ELSE "mdm_detect"
  /\ ProviderSame
  /\ UNCHANGED <<file, clb, stage, ret, ensured, issued>>
  /\ CommandFrame

\* deploy: config = await migrateDomainMapping(config); it is saved when
\* it gained a descriptor
DeployAfterMigration ==
  /\ pc = "mdm_return"
  /\ command = "deploy"
  /\ config' = returned
  /\ file' = IF config'.loadBalancerResources # Null
                /\ originalConfig.loadBalancerResources = Null
             THEN config' ELSE file
  /\ pc' = "deploy_build"
  /\ ProviderSame
  /\ UNCHANGED <<command, originalConfig, callerConfig, clb, stage, ret, ensured,
                 issued>>
  /\ CommandFrame

\* deploy: build and deployment of the service; when they succeed and a
\* load balancer is wanted but not recorded, createLoadBalancer is called
DeployBuild ==
  /\ pc = "deploy_build"
  /\ \E out \in {"ok"} \cup Fault :
       /\ Charge(out)
       /\ IF out = "ok" /\ config.customDomain /\ Truthy(config.useLoadBalancer)
             /\ config.loadBalancerResources = Null
          THEN EnterCLB(config, "deploy")
          ELSE /\ pc' = "done"
               /\ UNCHANGED <<clb, stage, ret, ensured, issued>>
  /\ ProviderSame
  /\ UNCHANGED <<file, command, config, originalConfig, callerConfig,
                 migrationInfo, returned, migrationResult, dlb, pre,
                 deleteLog, teardowns, events, clbResults, shouldMigrate,
                 self, other, wait, retry, apps, removal, image>>

\* the ways the remove command is run: the prompt is declined, only the
\* service is removed, or everything is, with or without --keep-files
RemoveOptions == {"declined", "serviceOnly", "full", "keepFiles"}

\* error.message.includes('NOT_FOUND') in the remove command
RemoveIsBenign(err) == err = ErrNotFound

\* remove: the config is read and the removal confirmed; a full removal
\* starts with deleteLoadBalancer when the config has a descriptor
RemoveStart ==
  /\ pc = "idle"
  /\ command' = "remove"
  /\ config' = file
  /\ \E options \in RemoveOptions :
       /\ removal' = [removal EXCEPT !.options = options]
       /\ IF options = "declined"
          THEN /\ pc' = "done"
               /\ UNCHANGED <<dlb, deleteLog, teardowns, ret>>
          ELSE IF options = "serviceOnly"
          THEN /\ pc' = "rm_service_only"
               /\ UNCHANGED <<dlb, deleteLog, teardowns, ret>>
          ELSE IF config'.loadBalancerResources # Null
          THEN EnterDLB(config'.loadBalancerResources, "remove")
          ELSE /\ pc' = "rm_service"
               /\ UNCHANGED <<dlb, deleteLog, teardowns, ret>>
  /\ ProviderSame
  /\ UNCHANGED <<file, originalConfig, callerConfig, migrationInfo, returned,
                 migrationResult, clb, stage, faultsLeft, pre, ensured, events,
                 issued, clbResults, shouldMigrate, self, other, wait, retry, apps, image>>

RemoveFrame ==
  UNCHANGED <<file, command, config, originalConfig, callerConfig, migrationInfo,
              returned, migrationResult, clb, stage, ret, dlb, pre, ensured,
              deleteLog, teardowns, events, issued, clbResults, shouldMigrate,
              self, other, wait, retry, apps, image>>

\* one delete command of the remove command: 'not found' is tolerated,
\* any other error is counted, and the command goes on
RemoveResource(r, counted, next) ==
  /\ \E out \in DeleteOutcomes(r) :
       /\ Charge(out)
       /\ IF out = "ok" THEN ProviderDelete(r) ELSE ProviderSame
       /\ removal' = [removal EXCEPT
                        !.log = Append(@, [res |-> r, out |-> out]),
                        !.errorCount = IF out = "ok" \/ RemoveIsBenign(out) \/ ~counted
                                       THEN @ ELSE @ + 1]
  /\ pc' = next
  /\ RemoveFrame

\* remove --service-only: gcloud run services delete, then return
RemoveServiceOnly ==
  /\ pc = "rm_service_only"
  /\ RemoveResource("service", FALSE, "done")

\* full removal: gcloud run services delete
RemoveService ==
  /\ pc = "rm_service"
  /\ RemoveResource("service", TRUE,
                    IF config.customDomain THEN "rm_domain" ELSE "rm_repository")

\* full removal: gcloud run domain-mappings delete, with a custom domain
RemoveDomainMapping ==
  /\ pc = "rm_domain"
  /\ RemoveResource("domainMapping", TRUE, "rm_repository")

\* full removal: gcloud artifacts repositories delete
RemoveRepository ==
  /\ pc = "rm_repository"
  /\ RemoveResource("repository", TRUE, "rm_files")

\* full removal: unless --keep-files is given, the generated files and
\* config.json are deleted; then the summary is printed
RemoveFiles ==
  /\ pc = "rm_files"
  /\ removal' = [removal EXCEPT
                   !.files = IF removal.options = "keepFiles" THEN @ ELSE {}]
  /\ pc' = "done"
  /\ ProviderSame
  /\ faultsLeft' = faultsLeft
  /\ RemoveFrame

\* the steps of the remove command after deleteLoadBalancer
NextRemove ==
  \/ RemoveServiceOnly
  \/ RemoveService
  \/ RemoveDomainMapping
  \/ RemoveRepository
  \/ RemoveFiles

Next ==
  \/ MigrateDomainStart
  \/ MigrateDomainSave
  \/ DeployStart
  \/ DeployAfterMigration
  \/ DeployBuild
  \/ RemoveStart
  \/ MDMDetect
  \/ PMStart
  \/ PMRemove
  \/ MDMResult
  \/ CLBDescribe
  \/ CLBCreate
  \/ CLBDescribeCreated
  \/ CLBAttach
  \/ CLBNetworkDefault
  \/ CLBNetworkCustom
  \/ CLBNetworkCreate
  \/ CLBEnableVpcAccess
  \/ CLBConnectorCheck
  \/ CLBConnectorDelete
  \/ CLBConnectorCreate
  \/ CLBFinish
  \/ DLBStep
  \/ DLBReturn
  \/ NextRemove

Spec == Init /\ [][Next]_vars

\* deleteLoadBalancer(config) called with the configuration on file
DLBCall ==
  /\ pc = "idle"
  /\ config' = file
  /\ EnterDLB(config'.loadBalancerResources, "direct")
  /\ ProviderSame
  /\ UNCHANGED <<file, command, originalConfig, callerConfig, migrationInfo,
                 returned, migrationResult, clb, stage, faultsLeft, pre, ensured,
                 events, issued, clbResults, shouldMigrate, self, other, wait, retry, apps, removal, image>>

\* the remove command alone
NextTeardown ==
  \/ RemoveStart
  \/ DLBStep
  \/ DLBReturn
  \/ NextRemove

SpecTeardown == InitTeardown /\ [][NextTeardown]_vars

\* createLoadBalancer(config) called with the configuration on file
CLBCall ==
  /\ pc = "idle"
  /\ config' = file
  /\ EnterCLB(config', "direct")
  /\ ProviderSame
  /\ UNCHANGED <<file, command, originalConfig, callerConfig, migrationInfo,
                 returned, migrationResult, dlb, faultsLeft, pre, deleteLog,
                 teardowns, events, clbResults, shouldMigrate, self, other, wait, retry, apps, removal, image>>

\* createLoadBalancer(config) called a second time with the same
\* configuration, after the first call returned a descriptor
CLBCallAgain ==
  /\ pc = "done"
  /\ ret = "direct"
  /\ Len(clbResults) = 1
  /\ clbResults[1].result # Threw
  /\ EnterCLB(config, "direct")
  /\ ProviderSame
  /\ UNCHANGED <<file, command, config, originalConfig, callerConfig, migrationInfo,
                 returned, migrationResult, dlb, faultsLeft, pre, deleteLog,
                 teardowns, events, clbResults, shouldMigrate, self, other, wait, retry, apps, removal, image>>

\* the stages of createLoadBalancer
NextCLB ==
  \/ CLBDescribe
  \/ CLBCreate
  \/ CLBDescribeCreated
  \/ CLBAttach
  \/ CLBNetworkDefault
  \/ CLBNetworkCustom
  \/ CLBNetworkCreate
  \/ CLBEnableVpcAccess
  \/ CLBConnectorCheck
  \/ CLBConnectorDelete
  \/ CLBConnectorCreate
  \/ CLBFinish

\* a project with a custom domain and no recorded load balancer, as
\* createLoadBalancer sees it: of the flags it reads useStaticIP only
ProvisionInput ==
  /\ InitUnprovisioned
  /\ file.customDomain
  /\ file.useLoadBalancer = T
  /\ file.enableLoadBalancerMigration = U
  /\ file.createStaticOutboundIp = U
  /\ file.useStaticIP \in {F, T}
  /\ "domainMapping" \notin exists

InitProvision ==
  /\ ProvisionInput
  /\ faultsLeft = MaxFaults
  /\ InitInvocation

\* createLoadBalancer twice in a row
NextProvisionTwice ==
  \/ CLBCall
  \/ CLBCallAgain
  \/ NextCLB

SpecProvisionTwice == InitProvision /\ [][NextProvisionTwice]_vars

\* the firewall rules named after a network
FirewallOf(networkName) ==
  IF networkName = "customNet" THEN FirewallKinds ELSE DefaultFirewallKinds

\* a project with a custom domain, the outbound static IP requested and no
\* recorded load balancer; the firewall rules of the default network are
\* there or have been deleted
InitFirewall ==
  /\ file \in FreshFiles
  /\ file.customDomain
  /\ file.useLoadBalancer = T
  /\ file.enableLoadBalancerMigration = U
  /\ file.createStaticOutboundIp = U
  /\ file.useStaticIP = T
  /\ \E net \in SUBSET {"defaultNet"}, left \in LeftOvers,
        rules \in {{}, DefaultFirewallKinds} :
       /\ left.kinds \cap {"router", "connector"} # {} => net = {"defaultNet"}
       /\ rules # {} => net = {"defaultNet"}
       /\ exists = net \cup left.kinds \cup rules
       /\ connState = left.conn
       /\ addr = [k \in AddressKinds |-> IF k \in left.kinds THEN IndexOf(<<"staticIp", "natIp">>, k) ELSE 0]
       /\ nextAddr = 3
       /\ attached = FALSE
  /\ faultsLeft = MaxFaults
  /\ InitInvocation

\* createLoadBalancer with the outbound static IP
NextFirewall ==
  \/ CLBCall
  \/ NextCLB

SpecFirewall == InitFirewall /\ [][NextFirewall]_vars

\* the largest number of createLoadBalancer calls in a row
MaxCalls == 3

\* createLoadBalancer(config) called again with the same configuration,
\* whether the call before returned a descriptor or threw
CLBCallNext ==
  /\ pc = "done"
  /\ ret = "direct"
  /\ Len(clbResults) \in 1..(MaxCalls - 1)
  /\ EnterCLB(config, "direct")
  /\ ProviderSame
  /\ UNCHANGED <<file, command, config, originalConfig, callerConfig, migrationInfo,
                 returned, migrationResult, dlb, faultsLeft, pre, deleteLog,
                 teardowns, events, clbResults, shouldMigrate, self, other, wait, retry, apps, removal, image>>

\* a project without a recorded load balancer, or a provisioned one,
\* where the NEG may have been deleted since
InitReprovision ==
  /\ \/ ProvisionInput
     \/ \E nat \in BOOLEAN, gone \in {{}, {"neg"}} : InitProvisioned(nat, gone)
  /\ faultsLeft = MaxFaults
  /\ InitInvocation

\* createLoadBalancer called again and again
NextReprovision ==
  \/ CLBCall
  \/ CLBCallNext
  \/ NextCLB

SpecReprovision == InitReprovision /\ [][NextReprovision]_vars

\* the locals of the running createLoadBalancer call
Locals == [pc |-> pc, clb |-> clb, stage |-> stage, ensured |-> ensured, issued |-> issued]

\* the two invocations are separate processes: between two provider
\* commands of one, the other may run
Yield ==
  /\ other.pc \notin {"none", "done"}
  /\ pc' = other.pc
  /\ clb' = other.clb
  /\ stage' = other.stage
  /\ ensured' = other.ensured
  /\ issued' = other.issued
  /\ other' = Locals
  /\ self' = 3 - self
  /\ ProviderSame
  /\ UNCHANGED <<file, command, config, originalConfig, callerConfig, migrationInfo,
                 returned, migrationResult, ret, dlb, faultsLeft, pre, deleteLog,
                 teardowns, events, clbResults, shouldMigrate, wait, retry, apps, removal, image>>

\* two invocations for the same project and service are about to call
\* createLoadBalancer; the provider answers every command by its state
InitConcurrent ==
  /\ ProvisionInput
  /\ faultsLeft = 0
  /\ InitRun
  /\ other = [NoOther EXCEPT !.pc = "idle"]
  /\ apps = NoApps
  /\ image = NoImage

\* createLoadBalancer in two concurrent invocations
NextConcurrent ==
  \/ CLBCall
  \/ Yield
  \/ NextCLB

SpecConcurrent == InitConcurrent /\ [][NextConcurrent]_vars

\* configurations for checkMigrationConfig: with and without a descriptor,
\* the two flags it reads unset, false, true or truthy
GateFiles ==
  [customDomain : BOOLEAN,
   loadBalancerResources : {Null, Descriptor(generateResourceNames, 1, FALSE, 0)},
   enableLoadBalancerMigration : {U, F, T, Yes},
   useLoadBalancer : {U, F, T, Yes},
   useManagedSSL : {U},
   useStaticIP : {U},
   createStaticOutboundIp : {U}]

InitGate ==
  /\ file \in GateFiles
  /\ exists = IF file.loadBalancerResources = Null THEN {} ELSE CoreKinds
  /\ connState = "READY"
  /\ addr = [k \in AddressKinds |-> IF k \in exists THEN 1 ELSE 0]
  /\ nextAddr = 3
  /\ attached = ("backend" \in exists)
  /\ faultsLeft = 0
  /\ InitInvocation

\* checkMigrationConfig(config, migrationInfo) called with the
\* configuration on file and a detection result
CheckMigrationConfigCall ==
  /\ pc = "idle"
  /\ \E needed \in BOOLEAN :
       /\ migrationInfo' = [needed |-> needed, reason |-> "given", query |-> "none"]
       /\ shouldMigrate' = checkMigrationConfig(config, needed)
  /\ pc' = "done"
  /\ ProviderSame
  /\ UNCHANGED <<file, command, config, originalConfig, callerConfig, returned,
                 migrationResult, clb, stage, ret, dlb, faultsLeft, pre, ensured,
                 deleteLog, teardowns, events, issued, clbResults, self, other, wait, retry, apps, removal, image>>

SpecGate == InitGate /\ [][CheckMigrationConfigCall]_vars

\* a configuration with or without a descriptor, every deletion may fail
InitDeleteLoadBalancer ==
  /\ \/ \E nat \in BOOLEAN, gone \in AlreadyDeleted : InitProvisioned(nat, gone)
     \/ InitUnprovisioned
  /\ faultsLeft = IF file.loadBalancerResources = Null THEN 0
                  ELSE Len(DeletionSteps(file.loadBalancerResources))
  /\ InitInvocation

\* deleteLoadBalancer alone
NextDeleteLoadBalancer ==
  \/ DLBCall
  \/ DLBStep
  \/ DLBReturn

SpecDeleteLoadBalancer == InitDeleteLoadBalancer /\ [][NextDeleteLoadBalancer]_vars

\* performMigration(config) called on its own, whatever the provider holds
PMCall ==
  /\ pc = "idle"
  /\ pc' = "pm_info"
  /\ ProviderSame
  /\ UNCHANGED <<file, command, config, originalConfig, callerConfig,
                 migrationInfo, returned, migrationResult, clb, stage, ret, dlb,
                 faultsLeft, pre, ensured, deleteLog, teardowns, events, issued,
                 clbResults, shouldMigrate, self, other, wait, retry, apps, removal, image>>

InitPerformMigration ==
  /\ InitUnprovisioned
  /\ file.customDomain
  /\ faultsLeft = MaxFaults
  /\ InitInvocation

NextPerformMigration ==
  \/ PMCall
  \/ PMStart
  \/ NextCLB
  \/ PMRemove
  \/ DLBStep
  \/ DLBReturn

SpecPerformMigration == InitPerformMigration /\ [][NextPerformMigration]_vars

\* the failures a rollback with a failed deletion takes: the deletion of
\* the legacy domain mapping and one deletion of the teardown
RollbackFaults == 2

\* performMigration on a project served by the legacy domain mapping,
\* where two provider commands may fail
InitRollback ==
  /\ InitUnprovisioned
  /\ file.customDomain
  /\ "domainMapping" \in exists
  /\ faultsLeft = RollbackFaults
  /\ InitInvocation

SpecRollback == InitRollback /\ [][NextPerformMigration]_vars

\* ------------------------------------------------------ waitForResourceReady
\* time is counted in units of 15 s: pollInterval = 30000 ms
PollInterval == 2
UnitsPerMinute == 4

\* largest maxWaitMinutes passed to waitForResourceReady
MaxWaitMinutes == 2

\* a returned boolean
Bool(b) == [bool |-> b]

ResourceTypes == {"ssl-certificate", "load-balancer", "other"}

\* the field of the describe output that holds the status
StatusField(resourceType) ==
  IF resourceType = "ssl-certificate" THEN "managed.status" ELSE "status"

\* a readiness test that takes every reported status for ready
IsReady_AnyStatus(status) == status # "error"

\* isReady = status === 'ACTIVE'
IsReady(status) == status = "ACTIVE"

\* a polling loop without its catch block: the error leaves the function
OnPollError_Throw(w) == [w EXCEPT !.pc = "done", !.result = Threw]

\* the catch block of the polling loop: the error is logged and the loop
\* goes on
OnPollError(w) == [w EXCEPT !.pc = "loop"]

\* waitForResourceReady(resourceType, resourceName, maxWaitMinutes)
WaitCall ==
  /\ wait.pc = "idle"
  /\ \E t \in ResourceTypes, maxWaitMinutes \in 0..MaxWaitMinutes :
       wait' = [wait EXCEPT !.pc = "loop", !.resourceType = t,
                            !.maxWaitMs = maxWaitMinutes * UnitsPerMinute,
                            !.elapsed = 0]
  /\ UNCHANGED <<invocationVars, retry, apps, image>>

\* while (Date.now() - startTime < maxWaitMs); after the loop the timeout
\* is reported and false returned
WaitLoop ==
  /\ wait.pc = "loop"
  /\ wait' = IF wait.elapsed < wait.maxWaitMs
             THEN [wait EXCEPT !.pc = "poll"]
             ELSE [wait EXCEPT !.pc = "done", !.result = Bool(FALSE)]
  /\ UNCHANGED <<invocationVars, retry, apps, image>>

\* the try block of one iteration: an unknown resource type throws before
\* any command; otherwise the status is queried, which takes one or two
\* units, and the call returns true, goes to sleep, or ends in the catch
\* block
WaitPoll ==
  /\ wait.pc = "poll"
  /\ IF wait.resourceType \notin {"ssl-certificate", "load-balancer"}
     THEN wait' = OnPollError([wait EXCEPT !.elapsed = @ + 1])
     ELSE \E status \in {"ACTIVE", "PROVISIONING", "error"}, d \in 1..2 :
            LET w == [wait EXCEPT
                        !.elapsed = @ + d,
                        !.log = Append(@, [op |-> "query",
                                           field |-> StatusField(wait.resourceType),
                                           out |-> status])]
            IN wait' = IF status = "error" THEN OnPollError(w)
                       ELSE IF IsReady(status)
                       THEN [w EXCEPT !.pc = "done", !.result = Bool(TRUE)]
                       ELSE [w EXCEPT !.pc = "sleep"]
  /\ UNCHANGED <<invocationVars, retry, apps, image>>

\* await new Promise(resolve => setTimeout(resolve, pollInterval)): the
\* timer fires after the interval or one unit late
WaitSleep ==
  /\ wait.pc = "sleep"
  /\ \E slack \in 0..1 :
       wait' = [wait EXCEPT !.pc = "loop",
                            !.elapsed = @ + PollInterval + slack,
                            !.log = Append(@, [op |-> "sleep", field |-> "none",
                                               out |-> "none"])]
  /\ UNCHANGED <<invocationVars, retry, apps, image>>

InitWait ==
  /\ InitProvisioned(FALSE, {})
  /\ faultsLeft = 0
  /\ InitInvocation

NextWait ==
  \/ WaitCall
  \/ WaitLoop
  \/ WaitPoll
  \/ WaitSleep

SpecWait == InitWait /\ [][NextWait]_vars

\* the process runs on: a step that can be taken is taken
SpecWaitFair == SpecWait /\ WF_vars(NextWait)

\* --------------------------------------------------- executeCommandWithRetry
\* largest maxRetries passed to executeCommandWithRetry
MaxRetries == 3

\* exit codes isRetryableError takes for transient
RetryableCodes == {Number(124), Number(125), Number(126), Number(127),
                   Number(130), Number(143)}

\* messages of failed commands: the first two contain one of the
\* retryablePatterns, the last two do not
RetryablePatterns == {"timeout", "503"}
Messages == RetryablePatterns \cup {"permission denied", "invalid argument"}

\* the errors executeCommand throws for the command of one attempt; it
\* wraps the failure in a new Error, which has a message and no code
AttemptErrors(attempt) ==
  [attempt : {attempt}, message : Messages, code : {Undefined}]

\* what executeCommand returns for the command of one attempt
AttemptResult(attempt) == [attempt |-> attempt, stdout |-> "output", code |-> Number(0)]

\* the attempt threw
IsError(out) == "message" \in DOMAIN out

\* isRetryableError: the message contains a retryable pattern, or the
\* code is a retryable exit code
isRetryableError(error) ==
  \/ error.message \in RetryablePatterns
  \/ error.code \in RetryableCodes

\* 2^n
RECURSIVE Pow2(_)
Pow2(n) == IF n = 0 THEN 1 ELSE 2 * Pow2(n - 1)

\* the delays the backoff may compute, in ms: baseDelay, doubled per
\* attempt with exponentialBackoff, moved by up to a quarter with jitter
\* (Math.random() is 0, 1/2 or just below 1)
Delays(r) ==
  LET delay == IF r.exponentialBackoff THEN r.baseDelay * Pow2(r.attempt - 1)
               ELSE r.baseDelay
  IN IF r.jitter
     THEN {delay - delay \div 4, delay, delay + delay \div 4 - 1}
     ELSE {delay}

\* a catch block that backs off and retries whatever the error is
Rethrow_Retried(r, error) == [r EXCEPT !.pc = "delay", !.lastError = error]

\* if (!isRetryableError(error)) throw error
Rethrow(r, error) ==
  [r EXCEPT !.pc = "done", !.lastError = error, !.result = [thrown |-> error]]

\* a function that returns undefined when the attempts are used up
Exhausted_ReturnsUndefined(r) == [returned |-> Undefined]

\* throw lastError, after the loop
Exhausted(r) == [thrown |-> r.lastError]

\* executeCommandWithRetry(command, options)
RetryCall ==
  /\ retry.pc = "idle"
  /\ \E maxRetries \in 0..MaxRetries, exponentialBackoff \in BOOLEAN,
        jitter \in BOOLEAN :
       retry' = [retry EXCEPT !.pc = "loop", !.maxRetries = maxRetries,
                              !.baseDelay = 1000,
                              !.exponentialBackoff = exponentialBackoff,
                              !.jitter = jitter, !.attempt = 1]
  /\ UNCHANGED <<invocationVars, wait, apps, image>>

\* for (let attempt = 1; attempt <= maxRetries; attempt++)
RetryLoop ==
  /\ retry.pc = "loop"
  /\ retry' = [retry EXCEPT
                 !.pc = IF retry.attempt <= retry.maxRetries THEN "try"
                        ELSE "exhausted"]
  /\ UNCHANGED <<invocationVars, wait, apps, image>>

\* one attempt: the result of executeCommand is returned; an error is
\* kept as lastError and rethrown when it is not retryable, ends the loop
\* on the last attempt, and is followed by the delay otherwise
RetryAttempt ==
  /\ retry.pc = "try"
  /\ \E out \in {AttemptResult(retry.attempt)} \cup AttemptErrors(retry.attempt) :
       LET r == [retry EXCEPT
                   !.log = Append(@, [op |-> "execute", attempt |-> retry.attempt,
                                      out |-> out])]
       IN retry' =
            IF ~IsError(out)
            THEN [r EXCEPT !.pc = "done", !.result = [returned |-> out]]
            ELSE IF ~isRetryableError(out)
            THEN Rethrow(r, out)
            ELSE IF retry.attempt = retry.maxRetries
            THEN [r EXCEPT !.pc = "exhausted", !.lastError = out]
            ELSE [r EXCEPT !.pc = "delay", !.lastError = out]
  /\ UNCHANGED <<invocationVars, wait, apps, image>>

\* the backoff: the delay is computed and slept, then attempt++
RetryDelay ==
  /\ retry.pc = "delay"
  /\ \E delay \in Delays(retry) :
       retry' = [retry EXCEPT
                   !.pc = "loop",
                   !.attempt = @ + 1,
                   !.log = Append(@, [op |-> "delay", attempt |-> retry.attempt,
                                      out |-> Number(delay)])]
  /\ UNCHANGED <<invocationVars, wait, apps, image>>

\* after the loop
RetryExhausted ==
  /\ retry.pc = "exhausted"
  /\ retry' = [retry EXCEPT !.pc = "done", !.result = Exhausted(retry)]
  /\ UNCHANGED <<invocationVars, wait, apps, image>>

NextRetry ==
  \/ RetryCall
  \/ RetryLoop
  \/ RetryAttempt
  \/ RetryDelay
  \/ RetryExhausted

SpecRetry == InitWait /\ [][NextRetry]_vars

\* ------------------------------------------------------------ resource names
\* a name is a sequence of units: a lower-case letter, an upper-case
\* letter, a digit, a hyphen, a character that is not allowed in a name,
\* and the word nat
Alphabet == {"a", "A", "1", "-", "_", "nat"}
Letters == {"a", "nat", "meteor", "app"}

\* longest service name, in units
MaxNameLen == 3

\* substring(0, 63)
NameLimit == 63

ServiceNames == UNION {[1..n -> Alphabet] : n \in 1..MaxNameLen}

\* toLowerCase and replace(/[^a-z0-9-]/g, '-')
LowerValid(c) == IF c = "A" THEN "a" ELSE IF c = "_" THEN "-" ELSE c

\* replace(/^[^a-z]+/, '')
RECURSIVE StripLeading(_)
StripLeading(s) ==
  IF s = <<>> \/ Head(s) \in Letters THEN s ELSE StripLeading(Tail(s))

\* replace(/-+/g, '-')
RECURSIVE Collapse(_)
Collapse(s) ==
  IF Len(s) < 2 THEN s
  ELSE IF s[1] = "-" /\ s[2] = "-" THEN Collapse(Tail(s))
  ELSE <<Head(s)>> \o Collapse(Tail(s))

\* replace(/-$/, '')
StripTrailing(s) ==
  IF s # <<>> /\ s[Len(s)] = "-" THEN SubSeq(s, 1, Len(s) - 1) ELSE s

Truncate(s) == SubSeq(s, 1, IF Len(s) < NameLimit THEN Len(s) ELSE NameLimit)

sanitizeServiceName(name) ==
  LET chain == Truncate(StripTrailing(Collapse(StripLeading(
                 [i \in 1..Len(name) |-> LowerValid(name[i])]))))
      lettered == IF chain = <<>> \/ chain[1] \notin Letters
                  THEN <<"meteor", "-">> \o (IF chain = <<>> THEN <<"app">> ELSE chain)
                  ELSE chain
      sanitized == StripTrailing(lettered)
  IN IF sanitized = <<>> THEN <<"meteor", "-", "app">> ELSE sanitized

\* the suffixes of generateResourceNames, by field
Suffixes ==
  [staticIpName |-> <<"-", "ip">>,
   sslCertName |-> <<"-", "ssl", "-", "cert">>,
   negName |-> <<"-", "neg">>,
   backendServiceName |-> <<"-", "backend">>,
   urlMapName |-> <<"-", "url", "-", "map">>,
   targetProxyName |-> <<"-", "https", "-", "proxy">>,
   forwardingRuleName |-> <<"-", "https", "-", "rule">>,
   natIpName |-> <<"-", "nat", "-", "ip">>,
   routerName |-> <<"-", "router">>,
   natName |-> <<"-", "nat">>]

\* generateResourceNames(serviceName, customDomain), with the names
ResourceNames(serviceName) ==
  [f \in DOMAIN Suffixes |-> sanitizeServiceName(serviceName) \o Suffixes[f]]

\* the resource names of two applications are generated
GenerateNames ==
  /\ apps.pc = "idle"
  /\ apps' = [apps EXCEPT
                !.pc = "done",
                !.resourceNames = <<ResourceNames(apps.serviceNames[1]),
                                    ResourceNames(apps.serviceNames[2])>>]
  /\ UNCHANGED <<invocationVars, wait, retry, image>>

InitNames ==
  /\ InitProvisioned(FALSE, {})
  /\ faultsLeft = 0
  /\ InitRun
  /\ other = NoOther
  /\ \E n1 \in ServiceNames, n2 \in ServiceNames :
       apps = [NoApps EXCEPT !.serviceNames = <<n1, n2>>]
  /\ image = NoImage

SpecNames == InitNames /\ [][GenerateNames]_vars

\* ------------------------------------------------------------- base image
\* the largest major and minor of the Meteor versions considered
MaxMajor == 5
MaxMinor == 20
MaxPatch == 1

\* a Meteor version is its components as split('.').map(Number) yields them
MeteorVersions ==
  {v \in UNION {[1..n -> 0..MaxMinor] : n \in 1..3} :
     /\ v[1] <= MaxMajor
     /\ Len(v) = 3 => v[3] <= MaxPatch}

\* const [major, minor, patch] = ...: a missing component is undefined
Component(v, i) == IF i <= Len(v) THEN Number(v[i]) ELSE Undefined

\* the known stable minors of a major, in the order of the list
knownStableVersions ==
  [m \in 1..3 |->
     CASE m = 3 -> <<0, 1, 2, 3>>
       [] m = 2 -> <<5, 6, 7, 8, 9, 10, 11, 12, 13, 14, 15, 16>>
       [] m = 1 -> <<12>>]

\* knownStableVersions[major] is defined
KnownMajor(major) == major # Undefined /\ major.int \in DOMAIN knownStableVersions

\* availableMinors.includes(minor)
Includes(availableMinors, minor) ==
  minor # Undefined /\ \E i \in DOMAIN availableMinors : availableMinors[i] = minor.int

FirstNotAbove_Lowest(availableMinors, minor) ==
  LET kept == {availableMinors[i] : i \in DOMAIN availableMinors} \cap
              (IF minor = Undefined THEN {} ELSE 0..minor.int)
  IN IF kept = {} THEN Undefined
     ELSE Number(CHOOSE m \in kept : \A k \in kept : m <= k)

\* availableMinors.filter(m => m <= minor).sort((a, b) => b - a)[0]:
\* a comparison with undefined is false
FirstNotAbove(availableMinors, minor) ==
  LET kept == {availableMinors[i] : i \in DOMAIN availableMinors} \cap
              (IF minor = Undefined THEN {} ELSE 0..minor.int)
  IN IF kept = {} THEN Undefined
     ELSE Number(CHOOSE m \in kept : \A k \in kept : k <= m)

\* x || y on a number or undefined: 0 is falsy as undefined is
OrElse(x, y) == IF x = Undefined \/ x = Number(0) THEN y ELSE x

\* the image tags
Tag(major, minor) == [major |-> major, minor |-> minor]
LatestTag == [latest |-> TRUE]

\* getCompatibleBaseImageFallback of utils
getCompatibleBaseImageFallback(meteorVersion) ==
  LET major == Component(meteorVersion, 1)
      minor == Component(meteorVersion, 2)
  IN IF KnownMajor(major) /\ Includes(knownStableVersions[major.int], minor)
     THEN Tag(major, minor)
     ELSE IF KnownMajor(major)
     THEN LET availableMinors == knownStableVersions[major.int]
              closestMinor ==
                OrElse(FirstNotAbove(availableMinors, minor),
                       Number(availableMinors[Len(availableMinors)]))
          IN Tag(major, closestMinor)
     ELSE LatestTag

\* the copy of the function in the version-fallback test
TestFirstNotAbove(availableMinors, minor) ==
  LET kept == {availableMinors[i] : i \in DOMAIN availableMinors} \cap
              (IF minor = Undefined THEN {} ELSE 0..minor.int)
  IN IF kept = {} THEN Undefined
     ELSE Number(CHOOSE m \in kept : \A k \in kept : k <= m)

TestFallback(meteorVersion) ==
  LET major == Component(meteorVersion, 1)
      minor == Component(meteorVersion, 2)
      known == [m \in 1..3 |->
                  CASE m = 3 -> <<0, 1, 2, 3>>
                    [] m = 2 -> <<5, 6, 7, 8, 9, 10, 11, 12, 13, 14, 15, 16>>
                    [] m = 1 -> <<12>>]
      isKnown == major # Undefined /\ major.int \in DOMAIN known
  IN IF isKnown /\ Includes(known[major.int], minor)
     THEN Tag(major, minor)
     ELSE IF isKnown
     THEN LET availableMinors == known[major.int]
          IN Tag(major, OrElse(TestFirstNotAbove(availableMinors, minor),
                               Number(availableMinors[Len(availableMinors)])))
     ELSE LatestTag

\* the cases of the version-fallback test: version and expected tag
tests ==
  {[version |-> <<3, 0>>, expected |-> Tag(Number(3), Number(0))],
   [version |-> <<3, 2>>, expected |-> Tag(Number(3), Number(2))],
   [version |-> <<2, 12>>, expected |-> Tag(Number(2), Number(12))],
   [version |-> <<1, 12>>, expected |-> Tag(Number(1), Number(12))],
   [version |-> <<3, 3, 2>>, expected |-> Tag(Number(3), Number(3))],
   [version |-> <<3, 4>>, expected |-> Tag(Number(3), Number(3))],
   [version |-> <<3, 10>>, expected |-> Tag(Number(3), Number(3))],
   [version |-> <<2, 20>>, expected |-> Tag(Number(2), Number(16))],
   [version |-> <<2, 3>>, expected |-> Tag(Number(2), Number(16))],
   [version |-> <<4, 0>>, expected |-> LatestTag],
   [version |-> <<5, 2, 1>>, expected |-> LatestTag]}

\* the fallback and its test copy are applied to a version
SelectBaseImage ==
  /\ image.pc = "idle"
  /\ image' = [image EXCEPT
                 !.pc = "done",
                 !.utils = getCompatibleBaseImageFallback(image.meteorVersion),
                 !.test = TestFallback(image.meteorVersion)]
  /\ UNCHANGED <<invocationVars, wait, retry, apps>>

InitImage ==
  /\ InitProvisioned(FALSE, {})
  /\ faultsLeft = 0
  /\ InitRun
  /\ other = NoOther
  /\ apps = NoApps
  /\ \E v \in MeteorVersions : image = [NoImage EXCEPT !.meteorVersion = v]

SpecImage == InitImage /\ [][SelectBaseImage]_vars

\* ----------------------------------------------------------------- claims
LBKinds == CoreKinds \cup NatKinds

Happened(type) == \E i \in 1..Len(events) : events[i].type = type

\* the resources of the deletion commands issued so far, in order
DeleteLogKinds == [i \in 1..Len(deleteLog) |-> deleteLog[i].res]

\* the resources of LBKinds that createLoadBalancer has ensured, in order
EnsuredLBKinds ==
  LET IsLB(k) == k \in LBKinds IN SelectSeq(ensured, IsLB)

LastTeardown == teardowns[Len(teardowns)]

\* the descriptor was returned by a createLoadBalancer run with useStaticIP
WithOutboundIp(desc) == "natIpAddress" \in DOMAIN desc

C2_RollbackKeepsReusedResources ==
  (ret = "rollback" /\ dlb.returned) => (pre \cap LBKinds) \subseteq exists

\* C3: when performMigration returns success = false and every deletion it
\* attempted succeeded, no load-balancer resource created during the run
\* still exists.
C3_FailedMigrationLeavesNothing ==
  ( /\ pc = "mdm_result"
    /\ ~migrationResult.success
    /\ \A i \in 1..Len(deleteLog) : deleteLog[i].out \in {"ok", ErrNotFound} )
  => (created \cap LBKinds \cap exists = {})

\* C4: the delete command for the legacy domain mapping is issued only
\* right after createLoadBalancer returned successfully in the same run,
\* having completed every stage, and only when detection said needed and
\* checkMigrationConfig returned true; never after a failed provisioning.
C4_CreateBeforeDeleteOld ==
  \A i \in 1..Len(events) :
    events[i].type = "legacy_delete" =>
      /\ i = 3
      /\ events[1].type = "migrating"
      /\ events[2].type = "provisioned"
      /\ events[2].desc # Null
      /\ migrationInfo.needed
      /\ checkMigrationConfig(callerConfig, migrationInfo.needed)
      /\ ret \in {"migration", "rollback"} => EnsuredLBKinds = CreationOrder(TRUE)

\* the legacy domain mapping has been deleted by a migration
C4_Witness ==
  /\ Happened("legacy_delete")
  /\ migrationResult.success
  /\ "domainMapping" \in pre
  /\ "domainMapping" \notin exists

\* the domain was served by the legacy domain mapping only, or by the
\* load balancer only, before the invocation
SteadyBefore ==
  \/ "domainMapping" \in pre /\ pre \cap LBKinds = {}
  \/ "domainMapping" \notin pre /\ CoreKinds \subseteq pre

\* C5: after a terminated migrate-domain or deploy invocation that started
\* in a steady state, and whose rollback deletions (if any) all succeeded,
\* the legacy domain mapping and the forwarding rule do not both exist.
C5_MutualExclusion ==
  ( /\ pc = "done"
    /\ command \in {"migrate-domain", "deploy"}
    /\ SteadyBefore
    /\ dlb.errorCount = 0 )
  => ~({"domainMapping", "rule"} \subseteq exists)

\* C6: when the migration is skipped or fails, migrateDomainMapping
\* returns the configuration with every field as the caller passed it.
C6_ReturnsOriginalOnSkipOrFailure ==
  (pc = "mdm_return" /\ ~migrationResult.success) => returned = callerConfig

\* C7: deleteLoadBalancer attempts every step of its list exactly once,
\* whatever the earlier outcomes, and errorCount is the number of steps
\* that failed with an error other than 'not found'.
C7_BestEffortErrorCount ==
  /\ pc = "dlb_step" =>
       /\ Len(deleteLog) = dlb.idx - 1
       /\ dlb.errorCount =
            Cardinality({i \in 1..Len(deleteLog) : deleteLog[i].out \notin {"ok", ErrNotFound}})
  /\ dlb.returned =>
       /\ DeleteLogKinds = DeletionSteps(file.loadBalancerResources)
       /\ dlb.errorCount =
            Cardinality({i \in 1..Len(deleteLog) : deleteLog[i].out \notin {"ok", ErrNotFound}})
       /\ (\A i \in 1..Len(deleteLog) : deleteLog[i].out = ErrNotFound) => dlb.errorCount = 0

\* a teardown that went on after a failing step and after a 'not found',
\* and counted the one genuine failure
C7_Witness ==
  /\ dlb.returned
  /\ dlb.errorCount = 1
  /\ deleteLog[1].out = ErrOther
  /\ \E i \in 2..Len(deleteLog) : deleteLog[i].out = ErrNotFound
  /\ \E i \in 2..Len(deleteLog) : deleteLog[i].out = "ok"

CanonicalDeletionOrder ==
  <<"rule", "proxy", "urlMap", "backend", "neg", "sslCert",
    "nat", "connector", "router", "natIp", "staticIp">>

ExpectedDeletions(desc) ==
  LET Kept(k) == k \in CoreKinds \/ k \in desc.names
  IN SelectSeq(CanonicalDeletionOrder, Kept)

IsPrefix(a, b) == Len(a) <= Len(b) /\ \A i \in 1..Len(a) : a[i] = b[i]

\* C8: the deletion commands are issued in the order forwarding rule,
\* HTTPS proxy, URL map, backend service, NEG, SSL certificate, then NAT
\* gateway, VPC connector, router, NAT IP (each only when named in the
\* descriptor), and the inbound static IP last.
C8_DeletionOrder ==
  teardowns # <<>> =>
    /\ IsPrefix(DeleteLogKinds, ExpectedDeletions(LastTeardown))
    /\ dlb.returned =>
         /\ DeleteLogKinds = ExpectedDeletions(LastTeardown)
         /\ DeleteLogKinds[Len(deleteLog)] = "staticIp"

\* a teardown of a descriptor with all optional resources has finished
C8_Witness ==
  /\ dlb.returned
  /\ Len(deleteLog) = Len(CanonicalDeletionOrder)
  /\ "connector" \in LastTeardown.names

\* C9: the deletion commands are issued in exactly the reverse of the
\* order in which createLoadBalancer ensures the resources, with and
\* without outbound static IP.
C9_ReverseOfCreation ==
  (teardowns # <<>> /\ dlb.returned) =>
    DeleteLogKinds = Reverse(CreationOrder(WithOutboundIp(LastTeardown)))

\* C10: for a descriptor produced without outbound static IP no deletion
\* command is issued for the NAT gateway, VPC connector, router or NAT IP.
C10_NoNatDeletionsWithoutOutboundIp ==
  (teardowns # <<>> /\ ~WithOutboundIp(LastTeardown)) =>
    \A i \in 1..Len(deleteLog) : deleteLog[i].res \notin NatKinds

\* C11: deleteLoadBalancer never throws and always completes by returning
\* an integer error count, for every configuration, the one without a
\* descriptor included (where no deletion is attempted), and for every
\* combination of failing deletion commands.
C11_AlwaysReturnsErrorCount ==
  (ret = "direct" /\ pc = "done") =>
    /\ dlb.returned
    /\ "int" \in DOMAIN dlb.value
    /\ config.loadBalancerResources = Null => deleteLog = <<>>

\* the second of two createLoadBalancer calls is running or has ended
InSecondCall ==
  /\ ret = "direct"
  /\ \/ Len(clbResults) = 1 /\ pc # "done"
     \/ Len(clbResults) = 2

\* C12: when createLoadBalancer has returned a descriptor and is called
\* again with the same configuration, nobody else touching the provider,
\* the second call -- even when none of its commands fails -- issues no
\* create and no delete command, and returns a descriptor equal to the
\* first one.
C12_SecondCallCreatesNothing ==
  (InSecondCall /\ \A i \in 1..Len(issued) : issued[i].out # ErrOther) =>
    /\ \A i \in 1..Len(issued) : issued[i].op \notin {"create", "delete"}
    /\ Len(clbResults) = 2 => clbResults[2].result = clbResults[1].result

LastCLBResult == clbResults[Len(clbResults)]

\* C13: when two createLoadBalancer invocations for the same project and
\* service run interleaved and the provider rejects a duplicate create
\* with 'already exists', no invocation throws because of it, and both
\* return the same descriptor.
C13_RaceTolerated ==
  /\ ( /\ pc = "done"
       /\ clbResults # <<>>
       /\ LastCLBResult.by = self
       /\ LastCLBResult.result = Threw )
     => issued[Len(issued)].out # ErrExists
  /\ Len(clbResults) = 2
     => /\ clbResults[1].result # Threw
        /\ clbResults[2].result = clbResults[1].result

\* createLoadBalancer is running
InCLB ==
  pc \in {"clb_check", "clb_create", "clb_describe_created", "clb_attach",
          "clb_net_default", "clb_net_custom", "clb_net_create", "clb_vpcapi",
          "clb_conn_check", "clb_conn_delete", "clb_conn_create", "clb_final"}

\* C14: a create command is issued only right after the lookup of the same
\* resource failed with 'not found' (or, for the VPC connector found in
\* ERROR state, after its deletion); a lookup that fails with another error
\* ends the call, which issues no create for that resource.
C14_CheckThenCreate ==
  \A i \in 1..Len(issued) :
    /\ issued[i].op = "create" =>
         /\ i > 1
         /\ issued[i - 1].res = issued[i].res
         /\ \/ issued[i - 1].op = "describe" /\ issued[i - 1].out = ErrNotFound
            \/ issued[i - 1].op = "delete"
    /\ (issued[i].op = "describe" /\ issued[i].out = ErrOther) =>
         /\ i = Len(issued)
         /\ ~InCLB

\* C15: when a command of createLoadBalancer -- lookups left aside -- fails
\* with an error that is neither 'already exists' nor 'not found', it is
\* the last command of the call and the call throws; nothing created so
\* far is deleted.
C15_FailFast ==
  \A i \in 1..Len(issued) :
    (issued[i].out = ErrOther /\ issued[i].op # "describe") =>
      /\ i = Len(issued)
      /\ ~InCLB
      /\ clbResults # <<>>
      /\ LastCLBResult.result = Threw
      /\ \A j \in 1..Len(issued) : issued[j].op # "delete"

\* the resources named in the command that creates r (or attaches the NEG)
References(op, r) ==
  IF op = "attach" THEN {"backend", "neg"}
  ELSE CASE r = "rule" -> {"staticIp", "proxy"}
         [] r = "proxy" -> {"urlMap", "sslCert"}
         [] r = "urlMap" -> {"backend"}
         [] r = "backend" -> {"sslCert", "neg"}
         [] r = "nat" -> {"natIp", "router"}
         [] OTHER -> {}

\* resource d was found or created by one of the first n commands
FoundOrCreated(d, n) ==
  \E j \in 1..n :
    /\ issued[j].res = d
    /\ issued[j].op \in {"describe", "create"}
    /\ issued[j].out = "ok"

\* C16: when createLoadBalancer issues a create command (or attaches the
\* NEG), every resource the command refers to was found or created earlier
\* in the same call and exists: static IP and proxy before the forwarding
\* rule, URL map and SSL certificate before the proxy, backend service
\* before the URL map, SSL certificate and NEG before the backend service,
\* NAT IP and router before the NAT gateway.
C16_DependenciesFirst ==
  \A i \in 1..Len(issued) :
    issued[i].op \in {"create", "attach"} =>
      \A d \in References(issued[i].op, issued[i].res) :
        /\ FoundOrCreated(d, i - 1)
        /\ (i = Len(issued) /\ InCLB) => d \in exists

\* a call that created the NAT gateway and the forwarding rule has returned
C16_Witness ==
  /\ clbResults # <<>>
  /\ LastCLBResult.result # Threw
  /\ \E i \in 1..Len(issued) : issued[i] = [op |-> "create", res |-> "nat", out |-> "ok"]
  /\ \E i \in 1..Len(issued) : issued[i] = [op |-> "create", res |-> "rule", out |-> "ok"]
  /\ \E i \in 1..Len(issued) : issued[i] = [op |-> "attach", res |-> "backend", out |-> "ok"]

\* C17: the descriptor a createLoadBalancer call returns has the inbound
\* address and the seven core names; with useStaticIP it also has the NAT
\* IP, router and NAT names, natIpAddress and the connector name, and
\* without useStaticIP it has none of the NAT-related fields.
C17_DescriptorShape ==
  (clbResults # <<>> /\ LastCLBResult.result # Threw) =>
    LET d == LastCLBResult.result IN
    /\ d.ipAddress # 0
    /\ CoreKinds \subseteq d.names
    /\ clb.useStaticIP =>
         /\ NatKinds \subseteq d.names
         /\ "natIpAddress" \in DOMAIN d
         /\ d.natIpAddress # 0
    /\ ~clb.useStaticIP =>
         /\ d.names \cap NatKinds = {}
         /\ "natIpAddress" \notin DOMAIN d

\* the descriptor on file before the invocation
DescriptorBefore == originalConfig.loadBalancerResources

C19_PureGate ==
  (pc = "done" /\ command = "none" /\ ret = "none") =>
    /\ ~migrationInfo.needed => ~shouldMigrate
    /\ shouldMigrate <=>
         /\ migrationInfo.needed
         /\ \/ config.enableLoadBalancerMigration = T
            \/ /\ config.useLoadBalancer = T
               /\ config.loadBalancerResources = Null
    /\ config = file
    /\ exists = pre
    /\ issued = <<>>
    /\ deleteLog = <<>>

\* the gate was opened by useLoadBalancer alone, next to a truthy
\* enableLoadBalancerMigration that is not the boolean true
C19_Witness ==
  /\ pc = "done"
  /\ command = "none"
  /\ migrationInfo.needed
  /\ shouldMigrate
  /\ config.enableLoadBalancerMigration = Yes

\* detectMigrationNeeded has returned
Detected == migrationInfo.reason \notin {"none", "given"}

\* detectMigrationNeeded has just returned and its query was the command
\* that failed
DetectQueryFailed ==
  /\ pc \in {"pm_info", "mdm_return"}
  /\ Len(events) = 1
  /\ faultsLeft < MaxFaults

\* C20: detectMigrationNeeded says needed only when a custom domain is
\* configured, the configuration has no descriptor and the legacy domain
\* mapping is there; when the mapping is absent or the query fails it says
\* not needed, for the reason no_existing_domain_mapping or check_failed,
\* and it returns in every case.
C20_DetectionFailsSafe ==
  /\ Detected =>
       /\ migrationInfo.needed =>
            /\ callerConfig.customDomain
            /\ callerConfig.loadBalancerResources = Null
            /\ "domainMapping" \in pre
            /\ migrationInfo.reason = "has_domain_mapping"
       /\ ( /\ callerConfig.customDomain
            /\ callerConfig.loadBalancerResources = Null
            /\ "domainMapping" \notin pre \/ DetectQueryFailed )
          => /\ ~migrationInfo.needed
             /\ migrationInfo.reason \in {"no_existing_domain_mapping", "check_failed"}
  /\ pc \in {"pm_info", "pm_remove", "mdm_result", "mdm_return"} => Detected

\* the legacy domain mapping was found and the migration is needed
C20_Witness ==
  /\ Detected
  /\ migrationInfo.needed
  /\ pc = "pm_info"

\* detectMigrationNeeded has just returned to migrateDomainMapping
JustDetected ==
  /\ Detected
  /\ pc \in {"pm_info", "mdm_return"}
  /\ Len(events) = 1

\* C21: detectMigrationNeeded decides from the configuration alone when it
\* can: without a custom domain it returns needed = false for the reason
\* no_custom_domain, with a descriptor in the configuration it returns
\* needed = false for the reason already_using_load_balancer, and in both
\* cases no provider command was executed: no query outcome, no failure
\* consumed, the provider as it was.
C21_DecidedWithoutQuery ==
  (Detected /\ (~callerConfig.customDomain \/ callerConfig.loadBalancerResources # Null))
  => /\ migrationInfo =
          [needed |-> FALSE,
           reason |-> IF ~callerConfig.customDomain THEN "no_custom_domain"
                      ELSE "already_using_load_balancer",
           query |-> "none"]
     /\ JustDetected => /\ faultsLeft = MaxFaults
                        /\ exists = pre
                        /\ issued = <<>>

\* detection returned for a configuration that already has a descriptor
C21_Witness ==
  /\ JustDetected
  /\ callerConfig.customDomain
  /\ callerConfig.loadBalancerResources # Null
  /\ migrationInfo.reason = "already_using_load_balancer"

\* C22: once provisioning has succeeded and the legacy domain mapping's
\* delete command ran, an outcome of success or 'not found' makes
\* performMigration return success = true with the descriptor that
\* createLoadBalancer returned and without any teardown; every other
\* outcome makes it fail and roll that descriptor back.
C22_RemovalOutcome ==
  \A i \in 1..Len(events) :
    events[i].type = "legacy_delete" =>
      /\ i > 1
      /\ events[i-1].type = "provisioned"
      /\ IF events[i].out \in {"ok", ErrNotFound}
         THEN /\ pc = "mdm_result"
              /\ migrationResult.success
              /\ migrationResult.loadBalancerResources = events[i-1].desc
              /\ migrationResult.loadBalancerResources # Null
              /\ teardowns = <<>>
              /\ deleteLog = <<>>
              /\ ~Happened("rollback")
         ELSE /\ ~migrationResult.success
              /\ migrationResult.error
              /\ Happened("rollback")
              /\ teardowns = <<events[i-1].desc>>

\* the legacy domain mapping was gone when its delete command ran, and
\* the migration succeeded
C22_Witness ==
  /\ pc = "mdm_result"
  /\ \E i \in 1..Len(events) :
       events[i].type = "legacy_delete" /\ events[i].out = ErrNotFound
  /\ migrationResult.success

\* the status queries of the waitForResourceReady call, in order
WaitQueries ==
  LET IsQuery(e) == e.op = "query" IN SelectSeq(wait.log, IsQuery)

\* C23: waitForResourceReady returns true only right after a status query
\* of this call returned ACTIVE for the status field of the resource type;
\* it returns false only when maxWaitMinutes have elapsed since the call
\* started; and for one of the two resource types and maxWaitMinutes >= 1
\* a false was preceded by at least one status query.
C23_BoundedWait ==
  wait.pc = "done" =>
    /\ wait.result = Bool(TRUE) =>
         /\ wait.log # <<>>
         /\ wait.log[Len(wait.log)] =
              [op |-> "query", field |-> StatusField(wait.resourceType),
               out |-> "ACTIVE"]
    /\ wait.result = Bool(FALSE) =>
         /\ wait.elapsed >= wait.maxWaitMs
         /\ \A i \in 1..Len(wait.log) : wait.log[i].out # "ACTIVE"
         /\ ( /\ wait.maxWaitMs >= UnitsPerMinute
              /\ wait.resourceType \in {"ssl-certificate", "load-balancer"} )
            => WaitQueries # <<>>

\* a one-minute wait on a certificate that stayed PROVISIONING timed out
C23_Witness ==
  /\ wait.pc = "done"
  /\ wait.result = Bool(FALSE)
  /\ wait.resourceType = "ssl-certificate"
  /\ wait.maxWaitMs = UnitsPerMinute
  /\ WaitQueries # <<>>
  /\ \A i \in 1..Len(WaitQueries) : WaitQueries[i].out = "PROVISIONING"

\* the last entry of the log of the waitForResourceReady call
LastWaitEntry == wait.log[Len(wait.log)]

\* C24: waitForResourceReady never throws and always returns a boolean:
\* in every run the call ends, its result is true or false, a poll whose
\* query failed does not end the call (after it the call ends only with
\* false at the deadline), and a poll that reports ACTIVE ends the call
\* with true whatever failed before.
C24_AlwaysReturnsBoolean ==
  /\ [](wait.result \in {Undefined, Bool(TRUE), Bool(FALSE)})
  /\ []((wait.log # <<>> /\ LastWaitEntry.out = "error" /\ wait.pc = "done")
        => (wait.result = Bool(FALSE) /\ wait.elapsed >= wait.maxWaitMs))
  /\ []((wait.log # <<>> /\ LastWaitEntry.out = "ACTIVE") => wait.result = Bool(TRUE))
  /\ <>(wait.pc = "done" /\ wait.result \in {Bool(TRUE), Bool(FALSE)})

\* every poll of the call failed and the call returned false at the
\* deadline
C24_Witness ==
  /\ wait.pc = "done"
  /\ wait.result = Bool(FALSE)
  /\ Len(wait.log) >= 2
  /\ \A i \in 1..Len(wait.log) : wait.log[i].out = "error"

\* C25: between two consecutive status queries of one waitForResourceReady
\* call the function sleeps one poll interval: every query that is
\* followed by anything is followed by a sleep.
C25_SleepBetweenQueries ==
  \A i \in 1..(Len(wait.log) - 1) :
    wait.log[i].op = "query" => wait.log[i+1].op = "sleep"

\* the attempts of the executeCommandWithRetry call, in order
Attempts ==
  LET IsAttempt(e) == e.op = "execute" IN SelectSeq(retry.log, IsAttempt)

\* C26: for maxRetries >= 1, executeCommandWithRetry runs the command at
\* least once and at most maxRetries times, as attempts 1, 2, ...; when
\* it returns, the result is that of the last attempt made, which
\* succeeded after failures only; and when maxRetries attempts failed
\* with retryable errors it throws the error of the last of them.
C26_BoundedRetry ==
  (retry.pc = "done" /\ retry.maxRetries >= 1) =>
    /\ Len(Attempts) \in 1..retry.maxRetries
    /\ \A i \in 1..Len(Attempts) : Attempts[i].attempt = i
    /\ \A i \in 1..(Len(Attempts) - 1) : IsError(Attempts[i].out)
    /\ "returned" \in DOMAIN retry.result =>
         /\ retry.result = [returned |-> AttemptResult(Len(Attempts))]
         /\ retry.log[Len(retry.log)] =
              [op |-> "execute", attempt |-> Len(Attempts),
               out |-> AttemptResult(Len(Attempts))]
    /\ ~IsError(Attempts[Len(Attempts)].out) => "returned" \in DOMAIN retry.result
    /\ ( /\ Len(Attempts) = retry.maxRetries
         /\ \A i \in 1..Len(Attempts) :
              IsError(Attempts[i].out) /\ isRetryableError(Attempts[i].out) )
       => retry.result = [thrown |-> Attempts[retry.maxRetries].out]

\* three attempts failed with retryable errors and the last error was
\* thrown
C26_Witness ==
  /\ retry.pc = "done"
  /\ retry.maxRetries = 3
  /\ Len(Attempts) = 3
  /\ "thrown" \in DOMAIN retry.result
  /\ isRetryableError(retry.result.thrown)

\* C27: an attempt that fails with an error isRetryableError does not
\* take for transient is the last thing the call does: no delay and no
\* attempt follows it, whatever maxRetries is and whatever failed before,
\* and the call ends by throwing that error.
C27_NonRetryableShortCircuits ==
  \A i \in 1..Len(retry.log) :
    ( /\ retry.log[i].op = "execute"
      /\ IsError(retry.log[i].out)
      /\ ~isRetryableError(retry.log[i].out) )
    => /\ i = Len(retry.log)
       /\ retry.pc = "done"
       /\ retry.result = [thrown |-> retry.log[i].out]

\* a permanent error on the second attempt, after a retryable one and
\* with an attempt left
C27_Witness ==
  /\ retry.pc = "done"
  /\ retry.maxRetries = 3
  /\ Len(Attempts) = 2
  /\ isRetryableError(Attempts[1].out)
  /\ IsError(Attempts[2].out)
  /\ ~isRetryableError(Attempts[2].out)
  /\ retry.result = [thrown |-> Attempts[2].out]

\* the set of resource names in a result of generateResourceNames
NameSet(names) == {names[f] : f \in DOMAIN names}

\* C28: two applications of one project with distinct service names get
\* disjoint sets of resource names.
C28_DisjointResourceNames ==
  (apps.pc = "done" /\ apps.serviceNames[1] # apps.serviceNames[2])
  => NameSet(apps.resourceNames[1]) \cap NameSet(apps.resourceNames[2]) = {}

\* the resources of the delete commands the remove command issued itself
RemovalKinds == {removal.log[i].res : i \in 1..Len(removal.log)}

\* C29: the full remove command issues no command that deletes the
\* Artifact Registry repository of the application, so the container
\* images in it are kept.
C29_RemoveKeepsImages ==
  /\ "repository" \notin RemovalKinds
  /\ "repository" \in pre => "repository" \in exists

\* resources that are shared or hold data
SharedKinds == NetworkKinds \cup FirewallKinds \cup SecretKinds

\* C30: no delete command of deleteLoadBalancer (called by remove or by
\* the rollback of a migration) and none of the remove command itself is
\* for a VPC network, a firewall rule or a secret, and those that existed
\* before the invocation exist after it.
C30_RemovalKeepsSharedResources ==
  /\ \A i \in 1..Len(deleteLog) : deleteLog[i].res \notin SharedKinds
  /\ RemovalKinds \cap SharedKinds = {}
  /\ pre \cap SharedKinds \subseteq exists

\* a full removal has finished, every load-balancer resource of the
\* descriptor is gone, and the network of the service, its firewall rules
\* and the secret are still there
C30_Witness ==
  /\ command = "remove"
  /\ pc = "done"
  /\ removal.options = "full"
  /\ Len(deleteLog) = 11
  /\ "service" \notin exists
  /\ exists \cap (CoreKinds \cup NatKinds) = {}
  /\ {"customNet", "secret"} \cup FirewallKinds \subseteq exists

\* the known stable minors of a major, as a set
KnownMinors(major) ==
  IF major \in DOMAIN knownStableVersions
  THEN {knownStableVersions[major][i] : i \in DOMAIN knownStableVersions[major]}
  ELSE {}

\* the greatest element of a non-empty set of numbers
Greatest(S) == CHOOSE m \in S : \A k \in S : k <= m

IssuedOps(op, r) == {i \in DOMAIN issued : issued[i].op = op /\ issued[i].res = r}

\* the current createLoadBalancer call has ended
CLBEnded == pc = "done" /\ ret = "direct" /\ Len(clbResults) > 0

\* C32 as stated: in a createLoadBalancer run the add-backend command is
\* issued if and only if the backend-service create command was issued in
\* that run
C32_AttachIffCreateIssued ==
  CLBEnded => (IssuedOps("attach", "backend") # {} <=> IssuedOps("create", "backend") # {})

\* C32 as amended: in a createLoadBalancer run the add-backend command is
\* issued if and only if the backend-service create command was issued
\* and succeeded in that run; when the backend service is found existing
\* no add-backend command is issued, even if the NEG was created in the run
C32_AttachIffBackendCreated ==
  CLBEnded =>
    /\ IssuedOps("attach", "backend") # {} <=>
         \E i \in IssuedOps("create", "backend") : issued[i].out = "ok"
    /\ (\E i \in IssuedOps("describe", "backend") : issued[i].out = "ok") =>
         IssuedOps("attach", "backend") = {}
    /\ Cardinality(IssuedOps("attach", "backend")) <= 1

\* the backend service was found while the NEG was created in the same
\* run, and the run returned a descriptor without attaching the NEG
C32_Witness ==
  /\ CLBEnded
  /\ LastCLBResult.result # Threw
  /\ \E i \in IssuedOps("create", "neg") : issued[i].out = "ok"
  /\ \E i \in IssuedOps("describe", "backend") : issued[i].out = "ok"
  /\ IssuedOps("attach", "backend") = {}

\* C33: in a sequence of createLoadBalancer calls with the same
\* configuration, on a project whose backend service did not exist before
\* the sequence and that nobody else changes, a call that returns a
\* descriptor leaves the full chain in place, with the NEG attached to the
\* backend service, whatever stage the earlier calls failed at
C33_RerunConverges ==
  (CLBEnded /\ LastCLBResult.result # Threw /\ "backend" \notin pre)
  => (CoreKinds \subseteq exists /\ attached)

\* the connector stage of the current createLoadBalancer call is over
PastConnectorStage ==
  /\ IssuedOps("describe", "connector") # {}
  /\ pc \notin {"clb_conn_check", "clb_conn_delete", "clb_conn_create"}

\* the outcome of the connector lookup of the current call
ConnectorLookup == issued[CHOOSE i \in IssuedOps("describe", "connector") : TRUE].out

\* C34: by the state the connector lookup observed: READY, no delete and
\* no create command is issued; ERROR, a delete command and then a create
\* command are issued; any other state, no delete and no create command;
\* not found, a create command and no delete command; and in each case the
\* call goes on with the SSL certificate stage, the connector name being
\* recorded among the names of the descriptor
C34_ConnectorByState ==
  PastConnectorStage =>
    LET deletes == IssuedOps("delete", "connector")
        creates == IssuedOps("create", "connector")
    IN /\ Cardinality(IssuedOps("describe", "connector")) = 1
       /\ (ConnectorLookup = "ok" /\ clb.state = "READY") =>
            (deletes = {} /\ creates = {})
       /\ (ConnectorLookup = "ok" /\ clb.state = "ERROR") =>
            /\ Cardinality(deletes) = 1
            /\ Cardinality(creates) = 1
            /\ \A d \in deletes, c \in creates : c = d + 1
       /\ (ConnectorLookup = "ok" /\ clb.state \notin {"READY", "ERROR"}) =>
            (deletes = {} /\ creates = {})
       /\ ConnectorLookup = ErrNotFound =>
            (deletes = {} /\ Cardinality(creates) = 1)
       /\ "connector" \in clb.names
       /\ \/ pc = "clb_check" /\ stage = "sslCert"
          \/ IssuedOps("describe", "sslCert") # {}
       /\ (pc = "done" /\ Len(clbResults) > 0 /\ LastCLBResult.result # Threw) =>
            "connector" \in LastCLBResult.result.names

\* a connector found in ERROR state was deleted and created again, and
\* the call returned a descriptor with its name
C34_Witness ==
  /\ PastConnectorStage
  /\ clb.state = "ERROR"
  /\ \E d \in IssuedOps("delete", "connector") : issued[d].out = "ok"
  /\ \E c \in IssuedOps("create", "connector") : issued[c].out = "ok"
  /\ pc = "done"
  /\ Len(clbResults) > 0
  /\ LastCLBResult.result # Threw
  /\ "connector" \in LastCLBResult.result.names

\* a connector found in a transitional state was left alone
C34_WitnessTransitional ==
  /\ PastConnectorStage
  /\ clb.state = "CREATING"
  /\ IssuedOps("create", "connector") = {}
  /\ IssuedOps("describe", "sslCert") # {}

\* the lookups of resource r in the current call that did not show it absent
FoundLookups(r) == {i \in IssuedOps("describe", r) : issued[i].out # ErrNotFound}

\* C35: when createLoadBalancer returns a descriptor and the outbound
\* static IP was requested, the three firewall rules of the network that
\* was resolved exist, be it the default network or the network of the
\* service, and a rule was created in the call only when its lookup showed
\* it absent
C35_FirewallRulesEnsured ==
  (CLBEnded /\ LastCLBResult.result # Threw /\ clb.useStaticIP)
  => /\ FirewallOf(clb.networkName) \subseteq exists
     /\ \A r \in FirewallKinds \cup DefaultFirewallKinds :
          IssuedOps("create", r) # {} =>
            (IssuedOps("describe", r) # {} /\ FoundLookups(r) = {})

\* C36: in the createLoadBalancer call of performMigration a create
\* command for the NAT address, the router, the NAT gateway or the VPC
\* connector is issued only when createStaticOutboundIp was true in the
\* configuration performMigration was given
C36_NatOnlyWhenRequested ==
  (ret = "migration" /\ ~Truthy(originalConfig.createStaticOutboundIp))
  => \A r \in NatKinds : IssuedOps("create", r) = {}

\* C37: when performMigration failed inside a deploy whose configuration
\* had useLoadBalancer unset, that deploy does not call createLoadBalancer
\* afterwards, and config.json keeps its content: no load-balancer flag
\* and no descriptor is saved
C37_FailedMigrationKeepsDomainMapping ==
  (command = "deploy" /\ migrationResult.error /\ originalConfig.useLoadBalancer = U)
  => /\ ret # "deploy"
     /\ file = originalConfig

\* performMigration is running: its own steps, createLoadBalancer or the
\* teardown of its rollback
InPerformMigration ==
  \/ pc \in {"pm_info", "pm_remove"}
  \/ InCLB /\ ret = "migration"
  \/ ret = "rollback" /\ pc # "mdm_result"

\* the delete command of the legacy domain mapping succeeded or reported
\* 'not found'
LegacyRemoved ==
  \E i \in 1..Len(events) :
    events[i].type = "legacy_delete" /\ events[i].out \in {"ok", ErrNotFound}

\* C38: performMigration never throws: while it runs it always has a next
\* step, whatever the outcome of the steps before, and it has called
\* createLoadBalancer by the time it returns, also when the domain mapping
\* info could not be fetched; the result it returns has success = true
\* exactly when createLoadBalancer returned a descriptor and the legacy
\* mapping's deletion succeeded or reported 'not found', an error exactly
\* when success is false, and a descriptor whenever success is true
C38_AlwaysReturnsResult ==
  /\ InPerformMigration => ENABLED NextPerformMigration
  /\ pc = "mdm_result" =>
       /\ Len(clbResults) = 1
       /\ migrationResult.success <=> (LastCLBResult.result # Threw /\ LegacyRemoved)
       /\ migrationResult.error <=> ~migrationResult.success
       /\ migrationResult.success => migrationResult.loadBalancerResources # Null

\* the domain mapping did not exist, so its info could not be fetched, and
\* the migration went on and succeeded
C38_Witness ==
  /\ pc = "mdm_result"
  /\ "domainMapping" \notin pre
  /\ migrationResult.success
  /\ ~migrationResult.error
  /\ migrationResult.loadBalancerResources # Null

\* C39: performMigration reports its rollback as completed only when the
\* teardown returned an error count of 0, and reports it as failed, manual
\* cleanup being needed, when a deletion of the teardown failed
C39_RollbackReportIsFaithful ==
  (pc = "mdm_result" /\ Happened("rollback"))
  => /\ Happened("rollback_completed") => dlb.value = Number(0)
     /\ dlb.value # Number(0) => Happened("rollback_failed")

\* C40: when a full removal without --keep-files of a project with a
\* recorded descriptor has ended with an error count above 0, config.json
\* is still in the project directory; it is deleted only when every cloud
\* deletion succeeded or reported 'not found'
C40_FailedRemoveKeepsConfig ==
  ( /\ command = "remove"
    /\ pc = "done"
    /\ removal.options = "full"
    /\ config.loadBalancerResources # Null )
  => /\ removal.errorCount > 0 => "config.json" \in removal.files
     /\ "config.json" \notin removal.files => removal.errorCount = 0

====
